---- MODULE Spec2Model ----
(***************************************************************************)
(* WorthWise: the ROI/KPI computation engine.                              *)
(*                                                                         *)
(* The model follows backend/app/services/roi_calculator.py (the formula   *)
(* library), backend/app/services/analytics_service.py (compute_kpis and   *)
(* its lookups), backend/app/api/v1/compute.py (the /compute and /compare  *)
(* handlers) and backend/app/duckdb_client.py (the DuckDB client).         *)
(*                                                                         *)
(* Numbers.  Python floats are modelled by exact rational arithmetic on    *)
(* integers: a rate is a record [num, den], round(x, n) is a rounding of   *)
(* the exact quotient to a scaled integer (roi and dti in hundredths,      *)
(* payback_years and comfort_index in tenths), int(x) is truncation        *)
(* towards zero.  An Optional[int] is None (the empty tuple) or Some(v).   *)
(***************************************************************************)
EXTENDS Integers, Sequences, FiniteSets, TLC

VARIABLES
    handler,      \* endpoint being served: "idle", "compute_roi", "compare_scenarios"
    pc,           \* position inside the handler / inside compute_kpis
    request,      \* the scenarios of the request (one for /compute, 1-4 for /compare)
    idx,          \* enumerate() index of the /compare loop (0-based)
    names,        \* institution_name / major_name locals of the /compare loop
    comparisons,  \* the comparisons list of /compare
    frame,        \* locals of the running compute_kpis call
    ret,          \* how the last compute_kpis call (or loop body) ended
    lookups,      \* external lookups issued by the running compute_kpis call, in
                  \* order, each with the outcome of its query
    response,     \* what the endpoint gave back to its caller
    connection,   \* DuckDBClient._connection: None or Some(i), the i-th connection
    connections   \* the DuckDB connections created so far, in order of creation:
                  \* the database each is on and whether it is still open

\* the state of the DuckDB client; the lookups of compute_kpis are modelled
\* by what their query gives back and leave it alone
client_vars == <<connection, connections>>

vars == <<handler, pc, request, idx, names, comparisons, frame, ret, lookups, response,
          connection, connections>>

(***************************************************************************)
(* Optional values and Python truthiness                                   *)
(***************************************************************************)
None == <<>>

Some(v) == <<v>>

Val(x) == x[1]

\* `if x:` for an Optional[int]: None and 0 are both falsy
Truthy(x) == x # None /\ Val(x) # 0

\* dict.get(key) with the default None
Get(d, key) == IF key \in DOMAIN d THEN d[key] ELSE None

\* int(x) of the quotient n/d, d > 0: truncation towards zero
Trunc(n, d) == IF n >= 0 THEN n \div d ELSE -((-n) \div d)

\* round() of the quotient n/d, d > 0, to the nearest integer, ties to even
Round(n, d) ==
    LET q == n \div d
        r == n - q * d
    IN  IF 2 * r < d THEN q
        ELSE IF 2 * r > d THEN q + 1
        ELSE IF q % 2 = 0 THEN q ELSE q + 1

RECURSIVE Pow(_, _)
Pow(b, e) == IF e = 0 THEN 1 ELSE b * Pow(b, e - 1)

Max(a, b) == IF a >= b THEN a ELSE b

(***************************************************************************)
(* Financial formula library (ROICalculator)                               *)
(***************************************************************************)
DEFAULT_PROGRAM_YEARS == 4
DEFAULT_FOOD_MONTHLY == 0
DEFAULT_TRANSPORT_MONTHLY == 0
DEFAULT_BOOKS_ANNUAL == 0
DEFAULT_MISC_MONTHLY == 0
DEFAULT_UTILITIES_MONTHLY == 0

get_default_values ==
    [program_years     |-> DEFAULT_PROGRAM_YEARS,
     food_monthly      |-> DEFAULT_FOOD_MONTHLY,
     transport_monthly |-> DEFAULT_TRANSPORT_MONTHLY,
     books_annual      |-> DEFAULT_BOOKS_ANNUAL,
     misc_monthly      |-> DEFAULT_MISC_MONTHLY,
     utilities_monthly |-> DEFAULT_UTILITIES_MONTHLY]

\* variant: the books are left out of the yearly total
calculate_total_cost_without_books(tuition_annual, housing_annual, food_monthly, transport_monthly, utilities_monthly, misc_monthly, books_annual) ==
    LET food_annual      == food_monthly * 12
        transport_annual == transport_monthly * 12
        utilities_annual == utilities_monthly * 12
        misc_annual      == misc_monthly * 12
        other_expenses   == food_annual + transport_annual + utilities_annual
                            + misc_annual + books_annual
    IN  <<tuition_annual + housing_annual + other_expenses - books_annual, housing_annual, other_expenses>>

\* returns <<true_yearly_cost, housing_annual, other_expenses>>
calculate_total_cost(tuition_annual, housing_annual, food_monthly, transport_monthly, utilities_monthly, misc_monthly, books_annual) ==
    LET food_annual      == food_monthly * 12
        transport_annual == transport_monthly * 12
        utilities_annual == utilities_monthly * 12
        misc_annual      == misc_monthly * 12
        other_expenses   == food_annual + transport_annual + utilities_annual
                            + misc_annual + books_annual
    IN  <<tuition_annual + housing_annual + other_expenses, housing_annual, other_expenses>>

\* sum over year in [from, program_years) of (1 + apr)^(program_years - year - 1),
\* as a numerator over the denominator apr.den^(program_years - 1)
RECURSIVE DebtFactor(_, _, _)
DebtFactor(year, program_years, loan_apr) ==
    IF year >= program_years THEN 0
    ELSE LET years_accumulating == program_years - year - 1
         IN  Pow(loan_apr.den + loan_apr.num, years_accumulating)
                 * Pow(loan_apr.den, program_years - 1 - years_accumulating)
             + DebtFactor(year + 1, program_years, loan_apr)

\* math.pow(1 + loan_apr, k), the products and the running total are binary
\* floating point.  A rate of 0, 0.1, 0.5 or 1 gives a float total whose
\* int() is the truncation of the exact sum for every annual_need up to
\* 100000 and up to 6 years.  At a rate of 0.4 the total comes out just below
\* the exact sum (1.4 is no binary fraction): where the exact sum is a whole
\* number int() gives one less.  This happens over 4 years for every
\* annual_need, and over 5 years for the annual_needs below (multiples of 625)
\* except 25000; over 3 years or less for no annual_need that is a multiple
\* of 5000.
FloatSumFallsShort(annual_need, program_years, loan_apr) ==
    /\ loan_apr = [num |-> 2, den |-> 5]
    /\ program_years \in {4, 5}
    /\ (annual_need * DebtFactor(0, program_years, loan_apr))
           % Pow(loan_apr.den, program_years - 1) = 0
    /\ program_years = 5 => annual_need \in {5000, 10000, 15000, 20000, 30000}

calculate_debt(yearly_cost, aid_annual, cash_annual, program_years, loan_apr) ==
    LET annual_need == Max(0, yearly_cost - aid_annual - cash_annual)
    IN  IF annual_need = 0 THEN 0
        ELSE IF program_years <= 0 THEN 0
        ELSE Trunc(annual_need * DebtFactor(0, program_years, loan_apr),
                   Pow(loan_apr.den, program_years - 1))
             - (IF FloatSumFallsShort(annual_need, program_years, loan_apr) THEN 1 ELSE 0)

\* roi in hundredths, or None
calculate_roi(total_investment, earnings_year_5) ==
    IF ~Truthy(earnings_year_5) \/ total_investment <= 0 THEN None
    ELSE LET cumulative_earnings == Val(earnings_year_5) * 5
         IN  Some(Round((cumulative_earnings - total_investment) * 100, total_investment))

LIVING_EXPENSES_ANNUAL == 30000

\* earnings_year_1 * (1 - effective_tax_rate) - living_expenses_annual is
\* binary floating point.  Where the exact difference is not 0 the float has
\* its sign.  Where it is exactly 0 the float is 0.0 for the tax rates 0,
\* 0.15, 0.25 and 1, but 1 - 0.7 is 0.30000000000000004, 100000 times that
\* is 30000.000000000004, and the float difference is 2^-38 > 0.
FloatDisposableAboveZero(earnings_year_1, effective_tax_rate, living_expenses_annual) ==
    /\ effective_tax_rate = [num |-> 7, den |-> 10]
    /\ earnings_year_1 = 100000
    /\ living_expenses_annual = 30000

\* payback years in tenths, or None; a payback beyond the integers of the
\* model (a debt divided by 2^-38) is kept as the largest of them
calculate_payback_period(total_debt, earnings_year_1, effective_tax_rate, living_expenses_annual) ==
    IF ~Truthy(earnings_year_1) \/ total_debt <= 0 THEN None
    ELSE LET \* disposable income as a numerator over effective_tax_rate.den
             disposable_num == Val(earnings_year_1)
                                  * (effective_tax_rate.den - effective_tax_rate.num)
                               - living_expenses_annual * effective_tax_rate.den
             above_zero     == FloatDisposableAboveZero(Val(earnings_year_1),
                                   effective_tax_rate, living_expenses_annual)
         IN  IF disposable_num < 0 \/ (disposable_num = 0 /\ ~above_zero) THEN None
             ELSE IF disposable_num = 0 THEN Some(2147483647)
             ELSE Some(Round(total_debt * 10 * effective_tax_rate.den, disposable_num))

\* a calculate_dti that cuts the ratio off after 2 decimals
calculate_dti_truncated(total_debt, earnings_year_1) ==
    IF ~Truthy(earnings_year_1) \/ Val(earnings_year_1) <= 0 THEN None
    ELSE Some(Trunc(total_debt * 100, Val(earnings_year_1)))

\* dti in hundredths, or None
calculate_dti(total_debt, earnings_year_1) ==
    IF ~Truthy(earnings_year_1) \/ Val(earnings_year_1) <= 0 THEN None
    ELSE Some(Round(total_debt * 100, Val(earnings_year_1)))

\* a calculate_comfort_index without the 40-point cap of the earnings score
calculate_comfort_index_uncapped(earnings_year_1, total_debt, dti, graduation_rate) ==
    IF ~Truthy(earnings_year_1) THEN None
    ELSE LET \* earnings_score = earnings/100000*40, numerator over 2500
             earnings_num == Val(earnings_year_1)
             \* debt_score, numerator over 5: 30*(1 - (dti - 0.5)/1.5) = (200 - 100*dti)/5
             debt_num == IF dti # None
                         THEN IF Val(dti) <= 50 THEN 150
                              ELSE IF Val(dti) >= 200 THEN 0
                              ELSE 200 - Val(dti)
                         ELSE 75
             \* grad_score = graduation_rate * 30, numerator over grad_den
             grad_den == IF graduation_rate # None THEN Val(graduation_rate).den ELSE 1
             grad_num == IF graduation_rate # None THEN Val(graduation_rate).num * 30 ELSE 15
         IN  Some(Round(10 * (earnings_num * 5 * grad_den
                              + debt_num * 2500 * grad_den
                              + grad_num * 2500 * 5),
                        2500 * 5 * grad_den))

\* comfort index in tenths, or None; dti in hundredths or None,
\* graduation_rate a rate [num, den] or None
calculate_comfort_index(earnings_year_1, total_debt, dti, graduation_rate) ==
    IF ~Truthy(earnings_year_1) THEN None
    ELSE LET \* earnings_score = min(40, earnings/100000*40), numerator over 2500
             earnings_num == IF Val(earnings_year_1) >= 100000 THEN 100000
                             ELSE Val(earnings_year_1)
             \* debt_score, numerator over 5: 30*(1 - (dti - 0.5)/1.5) = (200 - 100*dti)/5
             debt_num == IF dti # None
                         THEN IF Val(dti) <= 50 THEN 150
                              ELSE IF Val(dti) >= 200 THEN 0
                              ELSE 200 - Val(dti)
                         ELSE 75
             \* grad_score = graduation_rate * 30, numerator over grad_den
             grad_den == IF graduation_rate # None THEN Val(graduation_rate).den ELSE 1
             grad_num == IF graduation_rate # None THEN Val(graduation_rate).num * 30 ELSE 15
         IN  Some(Round(10 * (earnings_num * 5 * grad_den
                              + debt_num * 2500 * grad_den
                              + grad_num * 2500 * 5),
                        2500 * 5 * grad_den))

\* salary / (rpp_index / 100) is binary floating point.  For the indexes 80,
\* 100 and 120 the float quotient truncates to the same integer as the exact
\* one for every salary up to 200000.  110 / 100 is 1.1000000000000000888,
\* and for 8350 of the 18182 salaries up to 200000 that are multiples of 11,
\* among them 55000 and 66000 but not 77000, the float quotient is just
\* below the whole number salary / 1.1.
FloatQuotientFallsShort(salary, rpp_index) ==
    /\ rpp_index = 110
    /\ salary \in {55000, 66000}

\* rpp_index: Optional index (100 = national average)
apply_regional_adjustment(salary, rpp_index) ==
    IF rpp_index = None \/ Val(rpp_index) = 0 THEN salary
    ELSE Trunc(salary * 100, Val(rpp_index))
         - (IF FloatQuotientFallsShort(salary, Val(rpp_index)) THEN 1 ELSE 0)

\* variant: the monthly share is cut to whole dollars before it is annualised
calculate_housing_cost_monthly_floor(fmr_monthly, roommate_count) ==
    12 * Trunc(fmr_monthly, roommate_count + 1)

\* variant: the rent is not shared with the roommates
calculate_housing_cost_unshared(fmr_monthly, roommate_count) ==
    Trunc(fmr_monthly * 12, 1)

calculate_housing_cost(fmr_monthly, roommate_count) ==
    Trunc(fmr_monthly * 12, roommate_count + 1)

(***************************************************************************)
(* Reference data (MySQL): institutions and CIP codes                      *)
(*                                                                         *)
(* The institutions table holds one row for every combination of present / *)
(* zero / missing tuition figures; the digits of the id give, in order,    *)
(* the ownership, and the level of tuition_in_state, of tuition_out_state  *)
(* and of the average net price (0 = NULL, 1 = 0 USD, 2 = a positive       *)
(* amount).                                                                *)
(***************************************************************************)
Amount(level, usd) == IF level = 0 THEN None ELSE IF level = 1 THEN Some(0) ELSE Some(usd)

InstitutionIds ==
    {1000 + a * 100 + b * 10 + c : a \in 0..2, b \in 0..2, c \in 0..2}
    \cup {o * 1000 + a * 100 + c : o \in 2..3, a \in 0..2, c \in 0..2}

Institution(id) ==
    [id                    |-> id,
     name                  |-> "University " \o ToString(id),
     zip                   |-> "94720",
     ownership             |-> id \div 1000,
     tuition_in_state      |-> Amount((id \div 100) % 10, 14254),
     tuition_out_state     |-> Amount((id \div 10) % 10, 30000),
     avg_net_price_public  |-> IF id \div 1000 = 1 THEN Amount(id % 10, 12000) ELSE None,
     avg_net_price_private |-> IF id \div 1000 # 1 THEN Amount(id % 10, 20000) ELSE None]

\* db.query(Institution).filter(Institution.id == id).first()
QueryInstitution(id) == IF id \in InstitutionIds THEN Some(Institution(id)) ELSE None

\* db.query(CIPCode).filter(CIPCode.cip_code == cip_code).first()
QueryCIPCode(cip_code) ==
    IF cip_code = "11.0701" THEN Some([cip_code |-> cip_code, cip_title |-> "Computer Science"])
    ELSE None

\* get_data_versions_dict(db)
get_data_versions_dict == [college_scorecard |-> "2024-09-15", hud_fmr |-> "FY2026"]

(***************************************************************************)
(* Analytical data (DuckDB): what one query_one call can give back.        *)
(* raises = TRUE: the query raised; otherwise result is None (no row) or   *)
(* Some(row).                                                              *)
(***************************************************************************)
QueryRaises == [raises |-> TRUE, result |-> None]

QueryResult(r) == [raises |-> FALSE, result |-> r]

ProgramRows ==
    [earn_1yr    : {None, Some(75000)},
     earn_4yr    : {None, Some(95000)},
     earn_5yr    : {None, Some(110000)},
     debt_median : {Some(25000)}]

ProgramOutcomes == {QueryRaises, QueryResult(None)} \cup {QueryResult(Some(r)) : r \in ProgramRows}

\* the selected safmr_* column of the row: NULL, 0 or a rent
RentOutcomes ==
    {QueryRaises, QueryResult(None)} \cup {QueryResult(Some(v)) : v \in {None, Some(0), Some(1800)}}

\* the rpp_index column of the row: NULL, 0 or an index
RppOutcomes ==
    {QueryRaises, QueryResult(None)}
    \cup {QueryResult(Some(v)) : v \in {None, Some(0), Some(80), Some(100), Some(120)}}

(***************************************************************************)
(* Exceptions                                                              *)
(***************************************************************************)
DataNotFoundException(message) ==
    [kind |-> "raise", exc |-> "DataNotFoundException", message |-> message, value |-> None]

OtherException(exc, message) ==
    [kind |-> "raise", exc |-> exc, message |-> message, value |-> None]

Return(value) == [kind |-> "return", exc |-> "", message |-> "", value |-> Some(value)]

NoReturn == [kind |-> "none", exc |-> "", message |-> "", value |-> None]

(***************************************************************************)
(* AnalyticsService lookups                                                *)
(***************************************************************************)
\* variant: the fallback dict holds estimated earnings
get_program_data_estimating(outcome) ==
    LET fallback == [earn_1yr |-> Some(50000), earn_3yr |-> Some(55000),
                     earn_5yr |-> Some(60000), debt_median |-> None]
    IN  IF outcome.raises \/ outcome.result = None THEN fallback
        ELSE LET data == Val(outcome.result)
             IN  [earn_1yr |-> data.earn_1yr, earn_4yr |-> data.earn_4yr,
                  earn_5yr |-> data.earn_5yr, debt_median |-> data.debt_median,
                  earn_3yr |-> IF Truthy(data.earn_1yr) /\ Truthy(data.earn_4yr)
                               THEN Some(Trunc(Val(data.earn_1yr) * 3
                                               + (Val(data.earn_4yr) - Val(data.earn_1yr)) * 2, 3))
                               ELSE None]

\* the dict returned by get_program_data for a query outcome
get_program_data(outcome) ==
    LET fallback == [earn_1yr |-> None, earn_3yr |-> None, earn_5yr |-> None,
                     debt_median |-> None]
    IN  IF outcome.raises THEN fallback
        ELSE IF outcome.result = None THEN fallback   \* DataNotFoundException, caught below
        ELSE LET data == Val(outcome.result)
                 earn_3yr ==
                     IF Truthy(data.earn_1yr) /\ Truthy(data.earn_4yr)
                     THEN Some(Trunc(Val(data.earn_1yr) * 3
                                     + (Val(data.earn_4yr) - Val(data.earn_1yr)) * 2, 3))
                     ELSE None
             IN  [earn_1yr |-> data.earn_1yr, earn_4yr |-> data.earn_4yr,
                  earn_5yr |-> data.earn_5yr, debt_median |-> data.debt_median,
                  earn_3yr |-> earn_3yr]

\* variant: an institution that is not on record gives a dict of Nones
get_institution_data_lenient(institution_id) ==
    LET institution == QueryInstitution(institution_id)
    IN  IF institution = None
        THEN Return([id |-> institution_id, name |-> "", zip |-> "", ownership |-> 1,
                     tuition_in_state |-> None, tuition_out_state |-> None,
                     avg_net_price_public |-> None, avg_net_price_private |-> None])
        ELSE Return(Val(institution))

\* get_institution_data: the dict, or the DataNotFoundException it raises
get_institution_data(institution_id) ==
    LET institution == QueryInstitution(institution_id)
    IN  IF institution = None
        THEN DataNotFoundException("Institution " \o ToString(institution_id) \o " not found")
        ELSE Return(Val(institution))

\* Optional[int]: the monthly rent or None
get_housing_cost(outcome) ==
    IF outcome.raises THEN None
    ELSE IF outcome.result # None /\ Truthy(Val(outcome.result)) THEN Val(outcome.result)
    ELSE None

\* Optional index or None
get_regional_rpp(outcome) ==
    IF outcome.raises THEN None
    ELSE IF outcome.result # None /\ Truthy(Val(outcome.result)) THEN Val(outcome.result)
    ELSE None

(***************************************************************************)
(* Requests (ComputeRequest / CompareRequest)                              *)
(***************************************************************************)
MAX_SCENARIOS == 4

Rate(num, den) == [num |-> num, den |-> den]

\* the example scenario of the ComputeRequest schema, at a public institution
\* with every tuition figure on record
Base ==
    [institution_id     |-> 1222,
     cip_code           |-> "11.0701",
     credential_level   |-> 3,
     is_instate         |-> TRUE,
     housing_type       |-> "1BR",
     roommate_count     |-> 1,
     postgrad_region_id |-> None,
     rent_monthly       |-> None,
     utilities_monthly  |-> Some(150),
     food_monthly       |-> Some(400),
     transport_monthly  |-> Some(100),
     books_annual       |-> Some(1200),
     misc_monthly       |-> Some(200),
     aid_annual         |-> 5000,
     cash_annual        |-> 10000,
     loan_apr           |-> Rate(1, 10),
     effective_tax_rate |-> Rate(3, 20)]

\* roommate_count is 0..10 in the schema; the scenarios go up to MaxRoommates
MaxRoommates == 3

\* the housing fields vary
HousingScenarios ==
    {[Base EXCEPT !.housing_type = h, !.roommate_count = r, !.rent_monthly = m] :
        h \in {"none", "1BR"}, r \in 0..MaxRoommates, m \in {None, Some(0), Some(1500)}}

\* the institution and the residency vary; 9999 is no institution
TuitionScenarios ==
    {[Base EXCEPT !.institution_id = i, !.is_instate = s] :
        i \in InstitutionIds \cup {9999}, s \in BOOLEAN}

\* <<utilities, food, transport, books, misc>> overrides
LineItems ==
    {<<None, None, None, None, None>>,
     <<Some(150), Some(400), Some(100), Some(1200), Some(200)>>}

\* the money fields and the post-graduation region vary
FinanceScenarios ==
    {[Base EXCEPT !.rent_monthly = Some(1500),
                  !.utilities_monthly = l[1], !.food_monthly = l[2],
                  !.transport_monthly = l[3], !.books_annual = l[4], !.misc_monthly = l[5],
                  !.aid_annual = a, !.cash_annual = c, !.loan_apr = apr,
                  !.effective_tax_rate = tax, !.postgrad_region_id = region] :
        l \in LineItems, a \in {0, 5000, 60000}, c \in {0, 10000},
        apr \in {Rate(0, 1), Rate(1, 10)}, tax \in {Rate(0, 1), Rate(3, 20)},
        region \in {None, Some(0), Some(5)}}

\* a scenario that needs every lookup: no rent of its own and a region
RegionScenarios == {[Base EXCEPT !.postgrad_region_id = Some(5)]}

Scenarios == HousingScenarios \cup TuitionScenarios \cup FinanceScenarios \cup RegionScenarios

\* scenarios of a /compare request: at an institution on record or not, in a
\* major on record or not; the scenarios in the first major live at home,
\* those in the second rent at a rent of their own, so that the rent_source
\* differs between the scenarios of one request
CompareScenarios ==
    {[Base EXCEPT !.housing_type = IF c = "11.0701" THEN "none" ELSE "1BR",
                  !.rent_monthly = IF c = "11.0701" THEN None ELSE Some(1500),
                  !.institution_id = i, !.cip_code = c] :
        i \in {1222, 9999}, c \in {"11.0701", "52.0201"}}

(***************************************************************************)
(* State                                                                   *)
(***************************************************************************)
NoFrame ==
    [warnings |-> <<>>, assumptions |-> <<>>, inst_data |-> None, program_data |-> None,
     fmr_monthly |-> None, housing_annual |-> None,
     food_monthly |-> None, transport_monthly |-> None, utilities_monthly |-> None,
     misc_monthly |-> None, books_annual |-> None,
     tuition_fees |-> None, true_yearly_cost |-> None, other_expenses |-> None,
     program_years |-> None, expected_debt |-> None,
     earnings_year_1 |-> None, earnings_year_3 |-> None, earnings_year_5 |-> None,
     total_investment |-> None, roi |-> None, payback_years |-> None, dti_year_1 |-> None,
     graduation_rate |-> None, comfort_index |-> None]

NoNames == [institution_name |-> "", major_name |-> ""]

NoResponse == [status |-> "pending", detail |-> "", body |-> None]

Init ==
    /\ handler = "idle"
    /\ pc = "idle"
    /\ request = <<>>
    /\ idx = 0
    /\ names = NoNames
    /\ comparisons = <<>>
    /\ frame = NoFrame
    /\ ret = NoReturn
    /\ lookups = <<>>
    /\ response = NoResponse
    /\ connection = None
    /\ connections = <<>>

\* the scenario the running compute_kpis call works on
Scenario == request[idx + 1]

(***************************************************************************)
(* AnalyticsService.compute_kpis, one action per numbered step of the code *)
(***************************************************************************)
\* variant: the rent override is looked at before the housing type
rent_source_override_first(scenario) ==
    IF Truthy(scenario.rent_monthly) THEN "user_provided"
    ELSE IF scenario.housing_type = "none" THEN "none"
    ELSE "hud_fmr"

\* which of the three housing branches a request takes
rent_source(scenario) ==
    IF scenario.housing_type = "none" THEN "none"
    ELSE IF Truthy(scenario.rent_monthly) THEN "user_provided"
    ELSE "hud_fmr"

DEFAULT_FMR == 1200

\* variant: the fallback rent is used without a warning
ResolveRentSilently(fmr, warnings) ==
    IF ~Truthy(fmr)
    THEN [fmr_monthly |-> 1200, warnings |-> warnings]
    ELSE [fmr_monthly |-> Val(fmr), warnings |-> warnings]

\* the monthly rent and the warnings after the FMR lookup gave fmr
ResolveRent(fmr, warnings) ==
    IF ~Truthy(fmr)
    THEN [fmr_monthly |-> DEFAULT_FMR,
          warnings    |-> Append(warnings, "No FMR data for ZIP code - using default $"
                                           \o ToString(DEFAULT_FMR) \o "/month")]
    ELSE [fmr_monthly |-> Val(fmr), warnings |-> warnings]

\* a line item: the override of the request, else the default of the assumptions
Override(value, default) == IF value # None THEN Val(value) ELSE default

\* variant: a tuition warning is put at the head of the list
ResolveTuitionWarningFirst(inst_data, is_instate, warnings) ==
    LET ownership             == inst_data.ownership
        tuition_in_state      == inst_data.tuition_in_state
        tuition_out_state     == inst_data.tuition_out_state
        avg_net_price_public  == inst_data.avg_net_price_public
        avg_net_price_private == inst_data.avg_net_price_private
        unavailable == "Using estimated tuition (data unavailable)"
    IN  IF ownership = 1 THEN
            IF is_instate /\ Truthy(tuition_in_state)
            THEN [tuition_fees |-> Val(tuition_in_state), warnings |-> warnings]
            ELSE IF ~is_instate /\ Truthy(tuition_out_state)
            THEN [tuition_fees |-> Val(tuition_out_state), warnings |-> warnings]
            ELSE IF Truthy(avg_net_price_public)
            THEN [tuition_fees |-> Val(avg_net_price_public),
                  warnings |-> <<"Using average net price (tuition data unavailable)">>
                                  \o warnings]
            ELSE [tuition_fees |-> 14000, warnings |-> <<unavailable>> \o warnings]
        ELSE IF ownership = 2 THEN
            IF Truthy(avg_net_price_private)
            THEN [tuition_fees |-> Val(avg_net_price_private), warnings |-> warnings]
            ELSE IF Truthy(tuition_in_state)
            THEN [tuition_fees |-> Val(tuition_in_state), warnings |-> warnings]
            ELSE [tuition_fees |-> 35000, warnings |-> <<unavailable>> \o warnings]
        ELSE
            IF Truthy(tuition_in_state)
            THEN [tuition_fees |-> Val(tuition_in_state), warnings |-> warnings]
            ELSE IF Truthy(avg_net_price_private)
            THEN [tuition_fees |-> Val(avg_net_price_private), warnings |-> warnings]
            ELSE [tuition_fees |-> 25000, warnings |-> <<unavailable>> \o warnings]

\* the tuition and the warnings after the tuition step
ResolveTuition(inst_data, is_instate, warnings) ==
    LET ownership             == inst_data.ownership
        tuition_in_state      == inst_data.tuition_in_state
        tuition_out_state     == inst_data.tuition_out_state
        avg_net_price_public  == inst_data.avg_net_price_public
        avg_net_price_private == inst_data.avg_net_price_private
        unavailable == "Using estimated tuition (data unavailable)"
    IN  IF ownership = 1 THEN
            IF is_instate /\ Truthy(tuition_in_state)
            THEN [tuition_fees |-> Val(tuition_in_state), warnings |-> warnings]
            ELSE IF ~is_instate /\ Truthy(tuition_out_state)
            THEN [tuition_fees |-> Val(tuition_out_state), warnings |-> warnings]
            ELSE IF Truthy(avg_net_price_public)
            THEN [tuition_fees |-> Val(avg_net_price_public),
                  warnings |-> Append(warnings,
                                      "Using average net price (tuition data unavailable)")]
            ELSE [tuition_fees |-> 14000, warnings |-> Append(warnings, unavailable)]
        ELSE IF ownership = 2 THEN
            IF Truthy(avg_net_price_private)
            THEN [tuition_fees |-> Val(avg_net_price_private), warnings |-> warnings]
            ELSE IF Truthy(tuition_in_state)
            THEN [tuition_fees |-> Val(tuition_in_state), warnings |-> warnings]
            ELSE [tuition_fees |-> 35000, warnings |-> Append(warnings, unavailable)]
        ELSE
            IF Truthy(tuition_in_state)
            THEN [tuition_fees |-> Val(tuition_in_state), warnings |-> warnings]
            ELSE IF Truthy(avg_net_price_private)
            THEN [tuition_fees |-> Val(avg_net_price_private), warnings |-> warnings]
            ELSE [tuition_fees |-> 25000, warnings |-> Append(warnings, unavailable)]

\* one external lookup and what its query gave
Lookup(name, outcome) == [lookup |-> name, outcome |-> outcome]

\* variant: the warnings are kept on the service and carried from one call
\* of compute_kpis into the next
GetInstitutionOnSharedState ==
    /\ pc = "inst"
    /\ \E dbOk \in BOOLEAN :
         LET last    == comparisons[Len(comparisons)]
             started == [NoFrame EXCEPT
                            !.warnings = IF comparisons # <<>> THEN last.warnings ELSE <<>>,
                            !.assumptions = get_default_values]
             inst    == get_institution_data(Scenario.institution_id)
         IN  /\ lookups' = <<Lookup("institution",
                                     IF dbOk THEN QueryResult(QueryInstitution(Scenario.institution_id))
                                     ELSE QueryRaises)>>
             /\ IF ~dbOk
                THEN /\ frame' = started
                     /\ ret' = OtherException("OperationalError", "database unavailable")
                     /\ pc' = "raised"
                ELSE IF inst.kind = "raise"
                THEN /\ frame' = started
                     /\ ret' = inst
                     /\ pc' = "raised"
                ELSE /\ frame' = [started EXCEPT !.inst_data = Val(inst.value)]
                     /\ ret' = NoReturn
                     /\ pc' = "program"
    /\ UNCHANGED <<client_vars, handler, request, idx, names, comparisons, response>>

\* 1. Get institution data (the MySQL query itself may fail)
GetInstitution ==
    /\ pc = "inst"
    /\ \E dbOk \in BOOLEAN :
         LET started == [NoFrame EXCEPT !.warnings = <<>>,
                                        !.assumptions = get_default_values]
             inst    == get_institution_data(Scenario.institution_id)
         IN  /\ lookups' = <<Lookup("institution",
                                     IF dbOk THEN QueryResult(QueryInstitution(Scenario.institution_id))
                                     ELSE QueryRaises)>>
             /\ IF ~dbOk
                THEN /\ frame' = started
                     /\ ret' = OtherException("OperationalError", "database unavailable")
                     /\ pc' = "raised"
                ELSE IF inst.kind = "raise"
                THEN /\ frame' = started
                     /\ ret' = inst
                     /\ pc' = "raised"
                ELSE /\ frame' = [started EXCEPT !.inst_data = Val(inst.value)]
                     /\ ret' = NoReturn
                     /\ pc' = "program"
    /\ UNCHANGED <<client_vars, handler, request, idx, names, comparisons, response>>

\* 2. Get program earnings/debt data
GetProgram ==
    /\ pc = "program"
    /\ \E outcome \in ProgramOutcomes :
         LET program_data == get_program_data(outcome)
         IN  /\ frame' = [frame EXCEPT
                    !.program_data = program_data,
                    !.warnings = IF ~Truthy(Get(program_data, "earn_1yr"))
                                 THEN Append(@, "No earnings data available for this program - using estimates")
                                 ELSE @]
             /\ lookups' = Append(lookups, Lookup("program", outcome))
    /\ pc' = "housing"
    /\ UNCHANGED <<client_vars, handler, request, idx, names, comparisons, ret, response>>

\* variant: a rent lookup that raised is tried a second time
GetHousingRetrying ==
    /\ pc = "housing"
    /\ LET source == rent_source(Scenario)
       IN  IF source = "none"
           THEN /\ frame' = [frame EXCEPT
                        !.fmr_monthly = 0,
                        !.housing_annual = 0,
                        !.assumptions = [rent_source |-> "none"] @@ @]
                /\ UNCHANGED lookups
           ELSE IF source = "user_provided"
           THEN /\ frame' = [frame EXCEPT
                        !.fmr_monthly = Val(Scenario.rent_monthly),
                        !.assumptions = [rent_source |-> "user_provided"] @@ @,
                        !.housing_annual = calculate_housing_cost(Val(Scenario.rent_monthly),
                                                                  Scenario.roommate_count)]
                /\ UNCHANGED lookups
           ELSE \E outcome \in RentOutcomes :
                  LET rent == ResolveRent(get_housing_cost(outcome), frame.warnings)
                  IN  /\ frame' = [frame EXCEPT
                              !.fmr_monthly = rent.fmr_monthly,
                              !.warnings = rent.warnings,
                              !.assumptions = [rent_source |-> "hud_fmr"] @@ @,
                              !.housing_annual = calculate_housing_cost(rent.fmr_monthly,
                                                                        Scenario.roommate_count)]
                      /\ lookups' = IF outcome.raises
                                     THEN Append(Append(lookups, Lookup("rent", outcome)),
                                                 Lookup("rent", outcome))
                                     ELSE Append(lookups, Lookup("rent", outcome))
    /\ pc' = "costs"
    /\ UNCHANGED <<client_vars, handler, request, idx, names, comparisons, ret, response>>

\* 3. Get housing cost
GetHousing ==
    /\ pc = "housing"
    /\ LET source == rent_source(Scenario)
       IN  IF source = "none"
           THEN /\ frame' = [frame EXCEPT
                        !.fmr_monthly = 0,
                        !.housing_annual = 0,
                        !.assumptions = [rent_source |-> "none"] @@ @]
                /\ UNCHANGED lookups
           ELSE IF source = "user_provided"
           THEN /\ frame' = [frame EXCEPT
                        !.fmr_monthly = Val(Scenario.rent_monthly),
                        !.assumptions = [rent_source |-> "user_provided"] @@ @,
                        !.housing_annual = calculate_housing_cost(Val(Scenario.rent_monthly),
                                                                  Scenario.roommate_count)]
                /\ UNCHANGED lookups
           ELSE \E outcome \in RentOutcomes :
                  LET rent == ResolveRent(get_housing_cost(outcome), frame.warnings)
                  IN  /\ frame' = [frame EXCEPT
                              !.fmr_monthly = rent.fmr_monthly,
                              !.warnings = rent.warnings,
                              !.assumptions = [rent_source |-> "hud_fmr"] @@ @,
                              !.housing_annual = calculate_housing_cost(rent.fmr_monthly,
                                                                        Scenario.roommate_count)]
                      /\ lookups' = Append(lookups, Lookup("rent", outcome))
    /\ pc' = "costs"
    /\ UNCHANGED <<client_vars, handler, request, idx, names, comparisons, ret, response>>

\* 5. Get other costs (user overrides or defaults)
GetOtherCosts ==
    /\ pc = "costs"
    /\ frame' = [frame EXCEPT
           !.food_monthly      = Override(Scenario.food_monthly, frame.assumptions.food_monthly),
           !.transport_monthly = Override(Scenario.transport_monthly, frame.assumptions.transport_monthly),
           !.utilities_monthly = Override(Scenario.utilities_monthly, frame.assumptions.utilities_monthly),
           !.misc_monthly      = Override(Scenario.misc_monthly, frame.assumptions.misc_monthly),
           !.books_annual      = Override(Scenario.books_annual, frame.assumptions.books_annual)]
    /\ pc' = "tuition"
    /\ UNCHANGED <<client_vars, handler, request, idx, names, comparisons, ret, lookups, response>>

\* 6. Get tuition based on residency status and institution type
GetTuition ==
    /\ pc = "tuition"
    /\ LET tuition == ResolveTuition(frame.inst_data, Scenario.is_instate, frame.warnings)
       IN  frame' = [frame EXCEPT !.tuition_fees = tuition.tuition_fees,
                                  !.warnings = tuition.warnings]
    /\ pc' = "total"
    /\ UNCHANGED <<client_vars, handler, request, idx, names, comparisons, ret, lookups, response>>

\* 7. Calculate total cost
CalcTotalCost ==
    /\ pc = "total"
    /\ LET cost == calculate_total_cost(frame.tuition_fees, frame.housing_annual,
                                        frame.food_monthly, frame.transport_monthly,
                                        frame.utilities_monthly, frame.misc_monthly,
                                        frame.books_annual)
       IN  frame' = [frame EXCEPT !.true_yearly_cost = cost[1],
                                  !.housing_annual = cost[2],
                                  !.other_expenses = cost[3]]
    /\ pc' = "debt"
    /\ UNCHANGED <<client_vars, handler, request, idx, names, comparisons, ret, lookups, response>>

\* 8. Calculate debt
CalcDebt ==
    /\ pc = "debt"
    /\ LET program_years == frame.assumptions.program_years
       IN  frame' = [frame EXCEPT
               !.program_years = program_years,
               !.expected_debt = calculate_debt(frame.true_yearly_cost, Scenario.aid_annual,
                                                Scenario.cash_annual, program_years,
                                                Scenario.loan_apr)]
    /\ pc' = "earnings"
    /\ UNCHANGED <<client_vars, handler, request, idx, names, comparisons, ret, lookups, response>>

\* the earnings after the regional adjustment with the looked-up rpp
AdjustEarnings(earnings, rpp) ==
    IF Truthy(rpp) /\ Truthy(earnings)
    THEN Some(apply_regional_adjustment(Val(earnings), rpp))
    ELSE earnings

\* variant: the 5-year earnings are regionally adjusted as well
GetEarningsAdjustingFiveYear ==
    /\ pc = "earnings"
    /\ LET earnings_year_1 == Get(frame.program_data, "earn_1yr")
           earnings_year_3 == Get(frame.program_data, "earn_3yr")
           earnings_year_5 == Get(frame.program_data, "earn_5yr")
       IN  IF Truthy(Scenario.postgrad_region_id)
           THEN \E outcome \in RppOutcomes :
                  LET rpp == get_regional_rpp(outcome)
                  IN  /\ frame' = [frame EXCEPT
                              !.earnings_year_1 = AdjustEarnings(earnings_year_1, rpp),
                              !.earnings_year_3 = AdjustEarnings(earnings_year_3, rpp),
                              !.earnings_year_5 = AdjustEarnings(earnings_year_5, rpp)]
                      /\ lookups' = Append(lookups, Lookup("rpp", outcome))
           ELSE /\ frame' = [frame EXCEPT !.earnings_year_1 = earnings_year_1,
                                          !.earnings_year_3 = earnings_year_3,
                                          !.earnings_year_5 = earnings_year_5]
                /\ UNCHANGED lookups
    /\ pc' = "kpis"
    /\ UNCHANGED <<client_vars, handler, request, idx, names, comparisons, ret, response>>

\* 9. Get earnings projections, regionally adjusted if a region is given
GetEarnings ==
    /\ pc = "earnings"
    /\ LET earnings_year_1 == Get(frame.program_data, "earn_1yr")
           earnings_year_3 == Get(frame.program_data, "earn_3yr")
           earnings_year_5 == Get(frame.program_data, "earn_5yr")
       IN  IF Truthy(Scenario.postgrad_region_id)
           THEN \E outcome \in RppOutcomes :
                  LET rpp == get_regional_rpp(outcome)
                  IN  /\ frame' = [frame EXCEPT
                              !.earnings_year_1 = AdjustEarnings(earnings_year_1, rpp),
                              !.earnings_year_3 = AdjustEarnings(earnings_year_3, rpp),
                              !.earnings_year_5 = earnings_year_5]
                      /\ lookups' = Append(lookups, Lookup("rpp", outcome))
           ELSE /\ frame' = [frame EXCEPT !.earnings_year_1 = earnings_year_1,
                                          !.earnings_year_3 = earnings_year_3,
                                          !.earnings_year_5 = earnings_year_5]
                /\ UNCHANGED lookups
    /\ pc' = "kpis"
    /\ UNCHANGED <<client_vars, handler, request, idx, names, comparisons, ret, response>>

\* the placeholder graduation rate 0.75
GRADUATION_RATE == Rate(3, 4)

\* variant: the 5-year earnings are the proxy of the ROI
CalcKPIsWithFiveYearEarnings ==
    /\ pc = "kpis"
    /\ LET total_investment == (frame.true_yearly_cost * frame.program_years)
                               - (Scenario.aid_annual * frame.program_years)
           dti_year_1 == calculate_dti(frame.expected_debt, frame.earnings_year_1)
       IN  frame' = [frame EXCEPT
               !.total_investment = total_investment,
               !.roi = calculate_roi(total_investment, frame.earnings_year_5),
               !.payback_years = calculate_payback_period(frame.expected_debt,
                                     frame.earnings_year_1, Scenario.effective_tax_rate,
                                     LIVING_EXPENSES_ANNUAL),
               !.dti_year_1 = dti_year_1,
               !.graduation_rate = Some(GRADUATION_RATE),
               !.comfort_index = calculate_comfort_index(frame.earnings_year_1,
                                     frame.expected_debt, dti_year_1, Some(GRADUATION_RATE))]
    /\ pc' = "build"
    /\ UNCHANGED <<client_vars, handler, request, idx, names, comparisons, ret, lookups, response>>

\* 10. Calculate KPIs
CalcKPIs ==
    /\ pc = "kpis"
    /\ LET total_investment == (frame.true_yearly_cost * frame.program_years)
                               - (Scenario.aid_annual * frame.program_years)
           dti_year_1 == calculate_dti(frame.expected_debt, frame.earnings_year_1)
       IN  frame' = [frame EXCEPT
               !.total_investment = total_investment,
               !.roi = calculate_roi(total_investment, frame.earnings_year_3),
               !.payback_years = calculate_payback_period(frame.expected_debt,
                                     frame.earnings_year_1, Scenario.effective_tax_rate,
                                     LIVING_EXPENSES_ANNUAL),
               !.dti_year_1 = dti_year_1,
               !.graduation_rate = Some(GRADUATION_RATE),
               !.comfort_index = calculate_comfort_index(frame.earnings_year_1,
                                     frame.expected_debt, dti_year_1, Some(GRADUATION_RATE))]
    /\ pc' = "build"
    /\ UNCHANGED <<client_vars, handler, request, idx, names, comparisons, ret, lookups, response>>

KPIResult(f) ==
    [true_yearly_cost      |-> f.true_yearly_cost,
     tuition_fees          |-> f.tuition_fees,
     housing_annual        |-> f.housing_annual,
     other_expenses        |-> f.other_expenses,
     expected_debt_at_grad |-> f.expected_debt,
     earnings_year_1       |-> f.earnings_year_1,
     earnings_year_3       |-> f.earnings_year_3,
     earnings_year_5       |-> f.earnings_year_5,
     roi                   |-> f.roi,
     payback_years         |-> f.payback_years,
     dti_year_1            |-> f.dti_year_1,
     graduation_rate       |-> f.graduation_rate,
     comfort_index         |-> f.comfort_index]

\* 11. Build KPI result and return (kpis, assumptions, warnings)
BuildResult ==
    /\ pc = "build"
    /\ ret' = Return([kpis |-> KPIResult(frame), assumptions |-> frame.assumptions,
                      warnings |-> frame.warnings])
    /\ pc' = "returned"
    /\ UNCHANGED <<client_vars, handler, request, idx, names, comparisons, frame, lookups, response>>

compute_kpis ==
    \/ GetInstitution
    \/ GetProgram
    \/ GetHousing
    \/ GetOtherCosts
    \/ GetTuition
    \/ CalcTotalCost
    \/ CalcDebt
    \/ GetEarnings
    \/ CalcKPIs
    \/ BuildResult

(***************************************************************************)
(* POST /compute: compute_roi                                              *)
(***************************************************************************)
ComputeRoiReceive ==
    /\ handler = "idle"
    /\ \E scenario \in Scenarios : request' = <<scenario>>
    /\ handler' = "compute_roi"
    /\ idx' = 0
    /\ pc' = "inst"
    /\ UNCHANGED <<client_vars, names, comparisons, frame, ret, lookups, response>>

\* compute_kpis returned: read the data versions and answer 200 (500 when
\* that query fails)
ComputeRoiRespond ==
    /\ handler = "compute_roi"
    /\ pc = "returned"
    /\ \E dbOk \in BOOLEAN :
         IF dbOk
         THEN /\ response' = [status |-> "200", detail |-> "",
                              body |-> Some([scenario      |-> request[1],
                                             kpis          |-> Val(ret.value).kpis,
                                             assumptions   |-> Val(ret.value).assumptions,
                                             data_versions |-> get_data_versions_dict,
                                             warnings      |-> Val(ret.value).warnings])]
         ELSE \* the query raises inside the try: except Exception
              /\ response' = [status |-> "500",
                              detail |-> "Computation failed: database unavailable",
                              body |-> None]
    /\ pc' = "done"
    /\ UNCHANGED <<client_vars, handler, request, idx, names, comparisons, frame, ret, lookups>>

\* except DataNotFoundException: 404
ComputeRoiNotFound ==
    /\ handler = "compute_roi"
    /\ pc = "raised"
    /\ ret.exc = "DataNotFoundException"
    /\ response' = [status |-> "404", detail |-> ret.message, body |-> None]
    /\ pc' = "done"
    /\ UNCHANGED <<client_vars, handler, request, idx, names, comparisons, frame, ret, lookups>>

\* variant: every exception is answered 404
ComputeRoiFailedAsNotFound ==
    /\ handler = "compute_roi"
    /\ pc = "raised"
    /\ ret.exc # "DataNotFoundException"
    /\ response' = [status |-> "404", detail |-> ret.message, body |-> None]
    /\ pc' = "done"
    /\ UNCHANGED <<client_vars, handler, request, idx, names, comparisons, frame, ret, lookups>>

\* except Exception: 500
ComputeRoiFailed ==
    /\ handler = "compute_roi"
    /\ pc = "raised"
    /\ ret.exc # "DataNotFoundException"
    /\ response' = [status |-> "500", detail |-> "Computation failed: " \o ret.message,
                    body |-> None]
    /\ pc' = "done"
    /\ UNCHANGED <<client_vars, handler, request, idx, names, comparisons, frame, ret, lookups>>

compute_roi == ComputeRoiReceive \/ ComputeRoiRespond \/ ComputeRoiNotFound \/ ComputeRoiFailed

(***************************************************************************)
(* POST /compare: compare_scenarios                                        *)
(***************************************************************************)
\* the ScenarioComparison schema declares kpis: KPIResult = Field(...), a
\* required field that does not admit None: constructing the model with
\* kpis = None raises a pydantic ValidationError
ScenarioComparisonAccepts(kpis) == kpis # None

\* variant: the entries are numbered from 1
ScenarioComparisonOneBased(scenario_index, institution_name, major_name, scenario, kpis, warnings) ==
    [scenario_index   |-> scenario_index + 1,
     institution_name |-> institution_name,
     major_name       |-> major_name,
     scenario         |-> scenario,
     kpis             |-> kpis,
     warnings         |-> warnings]

ScenarioComparison(scenario_index, institution_name, major_name, scenario, kpis, warnings) ==
    [scenario_index   |-> scenario_index,
     institution_name |-> institution_name,
     major_name       |-> major_name,
     scenario         |-> scenario,
     kpis             |-> kpis,
     warnings         |-> warnings]

CompareReceive ==
    /\ handler = "idle"
    /\ \E n \in 1..MAX_SCENARIOS : \E scenarios \in [1..n -> CompareScenarios] :
         request' = scenarios
    /\ handler' = "compare_scenarios"
    /\ idx' = 0
    /\ comparisons' = <<>>
    /\ pc' = "loop"
    /\ UNCHANGED <<client_vars, names, frame, ret, lookups, response>>

\* top of the loop body: look up the institution and major names, then call
\* compute_kpis; a failing MySQL query raises inside the try
CompareIterate ==
    /\ handler = "compare_scenarios"
    /\ pc = "loop"
    /\ idx < Len(request)
    /\ \E dbOk \in BOOLEAN :
         LET institution == QueryInstitution(Scenario.institution_id)
             cip         == QueryCIPCode(Scenario.cip_code)
         IN  IF dbOk
             THEN /\ names' = [institution_name |->
                                   IF institution # None THEN Val(institution).name
                                   ELSE "Institution " \o ToString(Scenario.institution_id),
                               major_name |->
                                   IF cip # None THEN Val(cip).cip_title
                                   ELSE "Major " \o Scenario.cip_code]
                  /\ ret' = NoReturn
                  /\ pc' = "inst"
             ELSE /\ ret' = OtherException("OperationalError", "database unavailable")
                  /\ pc' = "raised"
                  /\ UNCHANGED names
    /\ frame' = NoFrame      \* the locals of the previous call are gone
    /\ lookups' = <<>>
    /\ UNCHANGED <<client_vars, handler, request, idx, comparisons, response>>

\* an exception that leaves the handler: the call raises to its caller
Propagate(exc) == [status |-> "raised", detail |-> exc, body |-> None]

\* comparisons.append(ScenarioComparison(...)) in the try body or in an
\* except clause; a ValidationError raised inside an except clause is not
\* caught by the clauses of the same try statement
AppendComparison(entry, in_except) ==
    IF ScenarioComparisonAccepts(entry.kpis)
    THEN /\ comparisons' = Append(comparisons, entry)
         /\ idx' = idx + 1
         /\ pc' = "loop"
         /\ UNCHANGED <<ret, response>>
    ELSE IF in_except
    THEN /\ response' = Propagate("ValidationError")
         /\ pc' = "done"
         /\ UNCHANGED <<comparisons, idx, ret>>
    ELSE /\ ret' = OtherException("ValidationError", "validation error for ScenarioComparison")
         /\ pc' = "raised"
         /\ UNCHANGED <<comparisons, idx, response>>

\* compute_kpis returned: append the comparison of this scenario
CompareAppend ==
    /\ handler = "compare_scenarios"
    /\ pc = "returned"
    /\ AppendComparison(ScenarioComparison(idx, names.institution_name, names.major_name,
                                           Scenario, Some(Val(ret.value).kpis),
                                           Val(ret.value).warnings), FALSE)
    /\ UNCHANGED <<client_vars, handler, request, names, frame, lookups>>

\* except DataNotFoundException: placeholder for the failed scenario
CompareNotFound ==
    /\ handler = "compare_scenarios"
    /\ pc = "raised"
    /\ ret.exc = "DataNotFoundException"
    /\ AppendComparison(ScenarioComparison(idx, "Unknown", "Unknown", Scenario, None,
                                           <<"Failed to compute: " \o ret.message>>), TRUE)
    /\ UNCHANGED <<client_vars, handler, request, names, frame, lookups>>

\* except Exception: placeholder for the failed scenario
CompareFailed ==
    /\ handler = "compare_scenarios"
    /\ pc = "raised"
    /\ ret.exc # "DataNotFoundException"
    /\ AppendComparison(ScenarioComparison(idx, "Unknown", "Unknown", Scenario, None,
                                           <<"Computation error: " \o ret.message>>), TRUE)
    /\ UNCHANGED <<client_vars, handler, request, names, frame, lookups>>

\* after the loop: read the data versions (outside any try) and answer
CompareRespond ==
    /\ handler = "compare_scenarios"
    /\ pc = "loop"
    /\ idx = Len(request)
    /\ \E dbOk \in BOOLEAN :
         response' = IF dbOk
                     THEN [status |-> "200", detail |-> "",
                           body |-> Some([comparisons   |-> comparisons,
                                          data_versions |-> get_data_versions_dict])]
                     ELSE Propagate("OperationalError")
    /\ pc' = "done"
    /\ UNCHANGED <<client_vars, handler, request, idx, names, comparisons, frame, ret, lookups>>

compare_scenarios ==
    CompareReceive \/ CompareIterate \/ CompareAppend \/ CompareNotFound \/ CompareFailed
    \/ CompareRespond

Next == compute_kpis \/ compute_roi \/ compare_scenarios

Spec == Init /\ [][Next]_vars

(***************************************************************************)
(* The formula library called on its own: ROICalculator holds no state, so *)
(* any of its functions can be called at any time with any arguments; the  *)
(* call is kept in request, what it returned in ret.  A lookup of          *)
(* AnalyticsService that is a function of what its query gives back is     *)
(* called the same way.                                                    *)
(***************************************************************************)
\* program_years is 4 in compute_kpis; the calls go from 0 to MaxProgramYears
MaxProgramYears == 4

\* loan_apr is a rate in [0, 1]
LoanRates == {Rate(0, 1), Rate(1, 10), Rate(2, 5), Rate(1, 2), Rate(1, 1)}

Call(function, args) == [function |-> function, args |-> args]

CalculatorInit ==
    /\ handler = "calculator"
    /\ pc = "idle"
    /\ request = <<>>
    /\ idx = 0
    /\ names = NoNames
    /\ comparisons = <<>>
    /\ frame = NoFrame
    /\ ret = NoReturn
    /\ lookups = <<>>
    /\ response = NoResponse
    /\ connection = None
    /\ connections = <<>>

\* ret holds what the call returned as an Optional: Some(v) for the int v of
\* a function that always returns an int, None or Some(v) for a function that
\* returns Optional

\* what a call leaves alone: the calculator itself keeps nothing
calculator_vars ==
    <<handler, pc, idx, names, comparisons, frame, lookups, response, client_vars>>

\* the arguments of a calculate_debt call
DebtArguments ==
    [yearly_cost   : {0, 20000, 30000},
     aid_annual    : {0, 5000, 30000},
     cash_annual   : {0, 5000, 25001},
     program_years : 0..MaxProgramYears,
     loan_apr      : LoanRates]

CallCalculateDebt ==
    /\ handler = "calculator"
    /\ \E args \in DebtArguments :
         /\ request' = <<Call("calculate_debt", args)>>
         /\ ret' = Return(Some(calculate_debt(args.yearly_cost, args.aid_annual,
                                              args.cash_annual, args.program_years,
                                              args.loan_apr)))
    /\ UNCHANGED calculator_vars

\* the arguments of a calculate_roi call
RoiArguments ==
    [total_investment : {-20000, 0, 1, 80000, 100000, 120000, 441665},
     earnings_year_5  : {None, Some(0), Some(60000), Some(88333)}]

CallCalculateRoi ==
    /\ handler = "calculator"
    /\ \E args \in RoiArguments :
         /\ request' = <<Call("calculate_roi", args)>>
         /\ ret' = Return(calculate_roi(args.total_investment, args.earnings_year_5))
    /\ UNCHANGED calculator_vars

\* effective_tax_rate is a rate in [0, 1]
TaxRates == {Rate(0, 1), Rate(3, 20), Rate(1, 4), Rate(7, 10), Rate(1, 1)}

\* the arguments of a calculate_payback_period call; living_expenses_annual
\* is 30000 when the caller leaves it out
PaybackArguments ==
    [total_debt             : {-5000, 0, 20000, 92820},
     earnings_year_1        : {None, Some(0), Some(30000), Some(40000), Some(75000),
                               Some(100000)},
     effective_tax_rate     : TaxRates,
     living_expenses_annual : {0, LIVING_EXPENSES_ANNUAL}]

CallCalculatePaybackPeriod ==
    /\ handler = "calculator"
    /\ \E args \in PaybackArguments :
         /\ request' = <<Call("calculate_payback_period", args)>>
         /\ ret' = Return(calculate_payback_period(args.total_debt, args.earnings_year_1,
                                                   args.effective_tax_rate,
                                                   args.living_expenses_annual))
    /\ UNCHANGED calculator_vars

\* the arguments of a calculate_dti call
DtiArguments ==
    [total_debt      : {0, 20000, 28000, 92820},
     earnings_year_1 : {None, Some(-5000), Some(0), Some(30000), Some(75000)}]

CallCalculateDti ==
    /\ handler = "calculator"
    /\ \E args \in DtiArguments :
         /\ request' = <<Call("calculate_dti", args)>>
         /\ ret' = Return(calculate_dti(args.total_debt, args.earnings_year_1))
    /\ UNCHANGED calculator_vars

\* graduation_rate is None or a rate in [0, 1]
GraduationRates == {None, Some(Rate(0, 1)), Some(Rate(1, 2)), Some(GRADUATION_RATE), Some(Rate(1, 1))}

\* dti in hundredths: None, or a ratio below, at, between and above the two
\* thresholds 0.5 and 2.0
DtiRatios == {None, Some(-50), Some(0), Some(50), Some(51), Some(125), Some(199), Some(200), Some(500)}

\* the arguments of a calculate_comfort_index call
ComfortArguments ==
    [earnings_year_1 : {None, Some(-100000), Some(0), Some(1), Some(50000), Some(75000),
                        Some(100000), Some(250000)},
     total_debt      : {0, 20000},
     dti             : DtiRatios,
     graduation_rate : GraduationRates]

CallCalculateComfortIndex ==
    /\ handler = "calculator"
    /\ \E args \in ComfortArguments :
         /\ request' = <<Call("calculate_comfort_index", args)>>
         /\ ret' = Return(calculate_comfort_index(args.earnings_year_1, args.total_debt,
                                                  args.dti, args.graduation_rate))
    /\ UNCHANGED calculator_vars

\* the arguments of an apply_regional_adjustment call: a salary and an index
\* that is absent, 0, below, at or above the national average of 100
AdjustmentArguments ==
    [salary    : {0, 1, 55000, 66000, 75000, 77000, 88333, 95000, 150000},
     rpp_index : {None, Some(0), Some(80), Some(100), Some(110), Some(120)}]

CallApplyRegionalAdjustment ==
    /\ handler = "calculator"
    /\ \E args \in AdjustmentArguments :
         /\ request' = <<Call("apply_regional_adjustment", args)>>
         /\ ret' = Return(Some(apply_regional_adjustment(args.salary, args.rpp_index)))
    /\ UNCHANGED calculator_vars

\* what the program query of get_program_data can give back: it raises, it
\* finds no row, or it finds a row whose earnings are NULL, 0 or a figure
ProgramEarnings ==
    {QueryRaises, QueryResult(None)}
    \cup {QueryResult(Some(r)) :
             r \in [earn_1yr    : {None, Some(0), Some(30000), Some(60000), Some(75000)},
                    earn_4yr    : {None, Some(0), Some(30001), Some(60000), Some(95000)},
                    earn_5yr    : {None, Some(110000)},
                    debt_median : {Some(25000)}]}

\* get_program_data on its own: it keeps nothing either; ret holds the
\* earn_3yr of the dict it returned
CallGetProgramData ==
    /\ handler = "calculator"
    /\ \E args \in [outcome : ProgramEarnings] :
         /\ request' = <<Call("get_program_data", args)>>
         /\ ret' = Return(get_program_data(args.outcome).earn_3yr)
    /\ UNCHANGED calculator_vars

\* roommate_count: ge=0, le=10
MAX_ROOMMATE_COUNT == 10

\* the arguments of a calculate_housing_cost call
HousingArguments ==
    [fmr_monthly    : {0, 1, 1000, 1200, 1800, 2501},
     roommate_count : 0..MAX_ROOMMATE_COUNT]

CallCalculateHousingCost ==
    /\ handler = "calculator"
    /\ \E args \in HousingArguments :
         /\ request' = <<Call("calculate_housing_cost", args)>>
         /\ ret' = Return(Some(calculate_housing_cost(args.fmr_monthly, args.roommate_count)))
    /\ UNCHANGED calculator_vars

CalculatorNext ==
    \/ CallCalculateDebt
    \/ CallCalculateRoi
    \/ CallCalculatePaybackPeriod
    \/ CallCalculateDti
    \/ CallCalculateComfortIndex
    \/ CallApplyRegionalAdjustment
    \/ CallGetProgramData
    \/ CallCalculateHousingCost

CalculatorSpec == CalculatorInit /\ [][CalculatorNext]_vars

(***************************************************************************)
(* DuckDBClient (backend/app/duckdb_client.py) called on its own: any       *)
(* sequence of connect, query, query_one and close calls on one client,    *)
(* one after the other.  The call is kept in request, how it ended in ret. *)
(***************************************************************************)
\* connections one client opens in a behaviour
MaxConnections == 4

ClientInit ==
    /\ handler = "duckdb_client"
    /\ pc = "idle"
    /\ request = <<>>
    /\ idx = 0
    /\ names = NoNames
    /\ comparisons = <<>>
    /\ frame = NoFrame
    /\ ret = NoReturn
    /\ lookups = <<>>
    /\ response = NoResponse
    /\ connection = None
    /\ connections = <<>>

\* what a call on the client leaves alone
duckdb_vars == <<handler, pc, idx, names, comparisons, frame, lookups, response>>

\* duckdb.connect(database=self.db_path, read_only=True), and
\* duckdb.connect(database=":memory:") when that raised
Open(file_opens) == [database |-> IF file_opens THEN "db_path" ELSE ":memory:", open |-> TRUE]

\* self.connect(): the client after the call, a new connection opened when
\* it held none
Connect(file_opens) ==
    IF connection = None
    THEN [connection  |-> Some(Len(connections) + 1),
          connections |-> Append(connections, Open(file_opens))]
    ELSE [connection |-> connection, connections |-> connections]

\* whether self.connect() can run within the bound
CanConnect == connection # None \/ Len(connections) < MaxConnections

connect ==
    /\ handler = "duckdb_client"
    /\ CanConnect
    /\ \E file_opens \in BOOLEAN :
         LET client == Connect(file_opens)
         IN  /\ connection' = client.connection
             /\ connections' = client.connections
             /\ request' = <<Call("connect", None)>>
             /\ ret' = Return(client.connection)
    /\ UNCHANGED duckdb_vars

\* variant: the closed connection stays in _connection
close_keeping_connection ==
    /\ handler = "duckdb_client"
    /\ IF connection # None
       THEN connections' = [connections EXCEPT ![Val(connection)].open = FALSE]
       ELSE UNCHANGED connections
    /\ UNCHANGED connection
    /\ request' = <<Call("close", None)>>
    /\ ret' = Return(None)
    /\ UNCHANGED duckdb_vars

close ==
    /\ handler = "duckdb_client"
    /\ IF connection # None
       THEN /\ connections' = [connections EXCEPT ![Val(connection)].open = FALSE]
            /\ connection' = None
       ELSE UNCHANGED <<connection, connections>>
    /\ request' = <<Call("close", None)>>
    /\ ret' = Return(None)
    /\ UNCHANGED duckdb_vars

\* conn.execute(sql, parameters) raises, or fetchall() gives the rows
query ==
    /\ handler = "duckdb_client"
    /\ CanConnect
    /\ \E file_opens \in BOOLEAN : \E outcome \in {QueryRaises, QueryResult(None),
                                                   QueryResult(Some(75000))} :
         LET client == Connect(file_opens)
         IN  /\ connection' = client.connection
             /\ connections' = client.connections
             /\ request' = <<Call("query", None)>>
             /\ ret' = IF outcome.raises THEN OtherException("Exception", "query failed")
                       ELSE Return(outcome.result)
    /\ UNCHANGED duckdb_vars

\* conn.execute(sql, parameters) raises, or fetchone() gives a row or None
query_one ==
    /\ handler = "duckdb_client"
    /\ CanConnect
    /\ \E file_opens \in BOOLEAN : \E outcome \in {QueryRaises, QueryResult(None),
                                                   QueryResult(Some(75000))} :
         LET client == Connect(file_opens)
         IN  /\ connection' = client.connection
             /\ connections' = client.connections
             /\ request' = <<Call("query_one", None)>>
             /\ ret' = IF outcome.raises THEN OtherException("Exception", "query failed")
                       ELSE Return(outcome.result)
    /\ UNCHANGED duckdb_vars

ClientNext == connect \/ close \/ query \/ query_one

ClientSpec == ClientInit /\ [][ClientNext]_vars

(***************************************************************************)
(* Properties                                                              *)
(***************************************************************************)
\* positions of compute_kpis after the institution step succeeded
PastInstitution ==
    {"program", "housing", "costs", "tuition", "total", "debt", "earnings", "kpis",
     "build", "returned"}

\* positions of compute_kpis after the housing step
PastHousing == PastInstitution \ {"program", "housing"}

\* positions of compute_kpis after the tuition step
PastTuition == PastHousing \ {"costs", "tuition"}

\* a scenario is being worked on
InScenario == handler # "idle" /\ idx < Len(request)

\* how many times w occurs in the list of warnings
Count(warnings, w) == Cardinality({i \in DOMAIN warnings : warnings[i] = w})

\* the outcomes of the lookups of that name issued by the running call
Issued(name) == {i \in DOMAIN lookups : lookups[i].lookup = name}

RentWarning == "No FMR data for ZIP code - using default $1200/month"

EarningsWarning == "No earnings data available for this program - using estimates"

TuitionWarnings ==
    {"Using average net price (tuition data unavailable)",
     "Using estimated tuition (data unavailable)"}

\* C1: compare_scenarios never raises to its caller because a scenario
\* failed: while scenarios remain the call does not end in an exception, a
\* 200 answer holds one entry per scenario, and an entry has either KPIs or
\* (for a failed scenario) no KPIs and a failure warning.
CompareToleratesFailedScenarios ==
    handler = "compare_scenarios" =>
        /\ ~(response.status = "raised" /\ idx < Len(request))
        /\ (pc = "done" /\ response.status = "200") => Len(comparisons) = Len(request)
        /\ \A i \in DOMAIN comparisons :
               comparisons[i].kpis = None => Len(comparisons[i].warnings) = 1

\* C2: whenever compare_scenarios returns, the comparisons list has as many
\* entries as the request has scenarios, and the i-th entry (0-based) has
\* scenario_index = i and carries the i-th scenario of the request.
CompareEntriesFollowInputOrder ==
    (handler = "compare_scenarios" /\ pc = "done" /\ response.status = "200") =>
        LET returned == Val(response.body).comparisons
        IN  /\ Len(returned) = Len(request)
            /\ \A i \in DOMAIN returned :
                   /\ returned[i].scenario_index = i - 1
                   /\ returned[i].scenario = request[i]

\* C2 witness: a comparison of four scenarios, not all the same, has returned
CompareReturnedFour ==
    /\ handler = "compare_scenarios"
    /\ pc = "done"
    /\ response.status = "200"
    /\ Len(request) = 4
    /\ request[1] # request[2]
    /\ Len(Val(response.body).comparisons) = 4

\* C3: when the institution lookup finds no record, compute_kpis takes no
\* further step and returns nothing: it raises the DataNotFoundException of
\* get_institution_data as it is, having resolved no institution data.
InstitutionNotFoundIsFatal ==
    (InScenario /\ pc # "loop" /\ QueryInstitution(Scenario.institution_id) = None) =>
        /\ pc \notin PastInstitution
        /\ ret.kind # "return"
        /\ frame.inst_data = None
        /\ (pc = "raised" /\ Issued("institution") # {} /\ ret.exc # "OperationalError") =>
               /\ ret = DataNotFoundException("Institution "
                                              \o ToString(Scenario.institution_id)
                                              \o " not found")
               /\ Len(lookups) = 1

\* C3 witness: compute_kpis has raised DataNotFoundException for an
\* institution that is not on record
InstitutionNotFoundRaised ==
    /\ handler = "compute_roi"
    /\ pc = "raised"
    /\ QueryInstitution(Scenario.institution_id) = None
    /\ ret.exc = "DataNotFoundException"

\* the program lookup of the running call gave no record, or failed
ProgramMissing ==
    \E i \in Issued("program") :
        lookups[i].outcome.raises \/ lookups[i].outcome.result = None

\* C4: with the institution on record and no program record (or a failing
\* program lookup) compute_kpis does not fail: it returns a KPIResult whose
\* earnings, roi, payback_years, dti_year_1 and comfort_index are None, whose
\* cost fields and debt are what the scenario, the institution and the rent
\* alone determine, and whose warnings name the missing earnings once.
MissingProgramDegrades ==
    (pc \in PastInstitution /\ ProgramMissing) =>
        /\ ret.kind # "raise"
        /\ Count(frame.warnings, EarningsWarning) = 1
        /\ pc = "returned" =>
              LET kpis == Val(ret.value).kpis
                  tuition == ResolveTuition(frame.inst_data, Scenario.is_instate, <<>>)
              IN  /\ ret.kind = "return"
                  /\ kpis.earnings_year_1 = None
                  /\ kpis.earnings_year_3 = None
                  /\ kpis.earnings_year_5 = None
                  /\ kpis.roi = None
                  /\ kpis.payback_years = None
                  /\ kpis.dti_year_1 = None
                  /\ kpis.comfort_index = None
                  /\ kpis.tuition_fees = tuition.tuition_fees
                  /\ kpis.housing_annual =
                         IF Scenario.housing_type = "none" THEN 0
                         ELSE calculate_housing_cost(frame.fmr_monthly, Scenario.roommate_count)
                  /\ kpis.other_expenses =
                         12 * (frame.food_monthly + frame.transport_monthly
                               + frame.utilities_monthly + frame.misc_monthly)
                         + frame.books_annual
                  /\ kpis.true_yearly_cost =
                         kpis.tuition_fees + kpis.housing_annual + kpis.other_expenses
                  /\ kpis.expected_debt_at_grad =
                         calculate_debt(kpis.true_yearly_cost, Scenario.aid_annual,
                                        Scenario.cash_annual, DEFAULT_PROGRAM_YEARS,
                                        Scenario.loan_apr)
                  /\ Count(Val(ret.value).warnings, EarningsWarning) = 1

\* C4 witness: compute_kpis returned although the program query raised, for
\* a scenario that borrows
MissingProgramReturned ==
    /\ pc = "returned"
    /\ \E i \in Issued("program") : lookups[i].outcome.raises
    /\ Val(ret.value).kpis.expected_debt_at_grad > 0

\* C5: /compute reports an institution that is not on record and an
\* unexpected failure as two different outcomes: 404 with the not-found
\* message exactly when compute_kpis raised DataNotFoundException, and 500
\* "Computation failed" exactly when anything else was raised.
NotFoundAndFailureAreDistinct ==
    (handler = "compute_roi" /\ pc = "done") =>
        /\ response.status \in {"200", "404", "500"}
        /\ response.status = "404" <=>
               (ret.kind = "raise" /\ ret.exc = "DataNotFoundException")
        /\ response.status = "404" =>
               /\ QueryInstitution(request[1].institution_id) = None
               /\ response.detail = "Institution " \o ToString(request[1].institution_id)
                                    \o " not found"
        /\ response.status = "500" =>
               /\ response.detail = "Computation failed: database unavailable"
               /\ ret.kind = "raise" => ret.exc = "OperationalError"
        /\ response.status = "200" => ret.kind = "return"

\* C5 witness: /compute answered 500 for an institution that is not on
\* record, because the query for it failed
FailureForMissingInstitution ==
    /\ handler = "compute_roi"
    /\ pc = "done"
    /\ response.status = "500"
    /\ QueryInstitution(request[1].institution_id) = None

\* C6: an error raised by the rent lookup or by the price-parity lookup is
\* surfaced as a computation failure and never turned into a KPI result.
LookupErrorsAreSurfaced ==
    (\E i \in Issued("rent") \cup Issued("rpp") : lookups[i].outcome.raises) =>
        /\ pc \notin PastHousing
        /\ ret.kind # "return"

\* C7: a scenario with housing_type "none" has housing_annual = 0 and
\* rent_source "none" whatever its roommate_count and rent_monthly; no rent
\* lookup is issued for it and no rent warning is given.
NoHousingCostsNothing ==
    (pc \in PastHousing /\ Scenario.housing_type = "none") =>
        /\ frame.housing_annual = 0
        /\ frame.assumptions.rent_source = "none"
        /\ Issued("rent") = {}
        /\ Count(frame.warnings, RentWarning) = 0
        /\ pc = "returned" =>
               /\ Val(ret.value).kpis.housing_annual = 0
               /\ Val(ret.value).assumptions.rent_source = "none"
               /\ Count(Val(ret.value).warnings, RentWarning) = 0

\* C7 witness: compute_kpis returned for a scenario without housing that
\* names three roommates and a rent of its own
NoHousingWithRentReturned ==
    /\ pc = "returned"
    /\ Scenario.housing_type = "none"
    /\ Scenario.roommate_count = 3
    /\ Scenario.rent_monthly = Some(1500)

\* C8: a scenario with housing and a rent_monthly override (any value >= 0,
\* 0 included) has rent_source "user_provided", issues no rent lookup, gets
\* no rent warning, and pays calculate_housing_cost(rent_monthly,
\* roommate_count) a year.
RentOverrideIsUsed ==
    (pc \in PastHousing /\ Scenario.housing_type # "none" /\ Scenario.rent_monthly # None) =>
        /\ frame.assumptions.rent_source = "user_provided"
        /\ Issued("rent") = {}
        /\ Count(frame.warnings, RentWarning) = 0
        /\ frame.housing_annual = calculate_housing_cost(Val(Scenario.rent_monthly),
                                                         Scenario.roommate_count)

\* the value the rent lookup of the running call returned to compute_kpis
RentLookedUp == get_housing_cost(lookups[CHOOSE i \in Issued("rent") : TRUE].outcome)

\* C9: a scenario with housing and no rent_monthly override issues one rent
\* lookup; a rent it returns is the monthly rent and no warning is given;
\* when it returns nothing the monthly rent is 1200 and one warning names
\* that fallback; either way rent_source is "hud_fmr" and housing_annual is
\* calculate_housing_cost(monthly rent, roommate_count).
RentLookupOrFallback ==
    (pc \in PastHousing /\ Scenario.housing_type # "none" /\ Scenario.rent_monthly = None) =>
        /\ Cardinality(Issued("rent")) = 1
        /\ frame.assumptions.rent_source = "hud_fmr"
        /\ RentLookedUp # None =>
               /\ frame.fmr_monthly = Val(RentLookedUp)
               /\ Count(frame.warnings, RentWarning) = 0
        /\ RentLookedUp = None =>
               /\ frame.fmr_monthly = 1200
               /\ Count(frame.warnings, RentWarning) = 1
        /\ frame.housing_annual = calculate_housing_cost(frame.fmr_monthly,
                                                         Scenario.roommate_count)
        /\ pc = "returned" =>
               /\ Val(ret.value).kpis.housing_annual = frame.housing_annual
               /\ Val(ret.value).warnings = frame.warnings

\* C9 witness: compute_kpis returned after the rent lookup found no row, for
\* a scenario with three roommates
RentFallbackReturned ==
    /\ pc = "returned"
    /\ Scenario.roommate_count = 3
    /\ \E i \in Issued("rent") : lookups[i].outcome = QueryResult(None)
    /\ Val(ret.value).kpis.housing_annual = 3600

\* how many tuition warnings the list holds
TuitionWarned(warnings) ==
    Cardinality({i \in DOMAIN warnings : warnings[i] \in TuitionWarnings})

\* C10: at a public institution tuition_fees is the in-state tuition when the
\* scenario is in-state and the figure is present (0 included), else the
\* out-of-state tuition when the scenario is out-of-state and the figure is
\* present, else the average net price (public) if present, with one
\* warning, else 14000, with one warning; the first two give no warning.
PublicTuitionPriority ==
    (pc \in PastTuition /\ frame.inst_data.ownership = 1) =>
        LET inst == frame.inst_data
        IN  IF Scenario.is_instate /\ inst.tuition_in_state # None
            THEN /\ frame.tuition_fees = Val(inst.tuition_in_state)
                 /\ TuitionWarned(frame.warnings) = 0
            ELSE IF ~Scenario.is_instate /\ inst.tuition_out_state # None
            THEN /\ frame.tuition_fees = Val(inst.tuition_out_state)
                 /\ TuitionWarned(frame.warnings) = 0
            ELSE IF inst.avg_net_price_public # None
            THEN /\ frame.tuition_fees = Val(inst.avg_net_price_public)
                 /\ TuitionWarned(frame.warnings) = 1
            ELSE /\ frame.tuition_fees = 14000
                 /\ TuitionWarned(frame.warnings) = 1

\* C11: at a private institution tuition_fees does not depend on the
\* residency flag.  Private nonprofit: the average net price (private) if
\* present, else the in-state tuition figure if present, else 35000 with one
\* warning.  Private for-profit: the in-state tuition figure if present, else
\* the average net price (private) if present, else 25000 with one warning.
\* Only the constant fallback gives a warning.
PrivateTuitionPriority ==
    (pc \in PastTuition /\ frame.inst_data.ownership # 1) =>
        LET inst   == frame.inst_data
            first  == IF inst.ownership = 2 THEN inst.avg_net_price_private
                      ELSE inst.tuition_in_state
            second == IF inst.ownership = 2 THEN inst.tuition_in_state
                      ELSE inst.avg_net_price_private
        IN  IF first # None
            THEN /\ frame.tuition_fees = Val(first)
                 /\ TuitionWarned(frame.warnings) = 0
            ELSE IF second # None
            THEN /\ frame.tuition_fees = Val(second)
                 /\ TuitionWarned(frame.warnings) = 0
            ELSE /\ frame.tuition_fees = (IF inst.ownership = 2 THEN 35000 ELSE 25000)
                 /\ Count(frame.warnings, "Using estimated tuition (data unavailable)") = 1

\* the text w holds the text s
Contains(w, s) ==
    \E i \in 1..Len(w) : i + Len(s) - 1 <= Len(w) /\ SubSeq(w, i, i + Len(s) - 1) = s

\* some warning of the list names the amount
Names(warnings, amount) == \E i \in DOMAIN warnings : Contains(warnings[i], ToString(amount))

\* the running call took the rent from the 1200 constant
RentFallbackUsed ==
    /\ Scenario.housing_type # "none"
    /\ Issued("rent") # {}
    /\ RentLookedUp = None

\* the running call took the tuition from a constant: no figure of the
\* institution was usable on the branch of its ownership
TuitionFallbackUsed ==
    LET inst == frame.inst_data
    IN  IF inst.ownership = 1
        THEN /\ ~(Scenario.is_instate /\ Truthy(inst.tuition_in_state))
             /\ ~(~Scenario.is_instate /\ Truthy(inst.tuition_out_state))
             /\ ~Truthy(inst.avg_net_price_public)
        ELSE ~Truthy(inst.avg_net_price_private) /\ ~Truthy(inst.tuition_in_state)

\* C12: in every result compute_kpis returns, a fallback constant that stood
\* in for missing data (rent 1200; tuition 14000, 35000 or 25000) is named,
\* with its amount, in one of the returned warnings.
FallbackConstantsAreNamed ==
    pc = "returned" =>
        LET result == Val(ret.value)
        IN  /\ RentFallbackUsed =>
                   /\ frame.fmr_monthly = DEFAULT_FMR
                   /\ Names(result.warnings, DEFAULT_FMR)
            /\ TuitionFallbackUsed =>
                   /\ result.kpis.tuition_fees \in {14000, 35000, 25000}
                   /\ Names(result.warnings, result.kpis.tuition_fees)

\* the warnings of the list that speak of earnings
AboutEarnings(warnings) == {i \in DOMAIN warnings : Contains(warnings[i], "earnings")}

\* C13: in every result compute_kpis returns, a KPI that is None for want of
\* an earnings figure (roi without 3-year earnings, which need both the
\* 1-year and the 4-year figure; payback_years, dti_year_1 and comfort_index
\* without 1-year earnings) comes with a warning about the missing earnings,
\* and that condition is warned of once.
DegradedEarningsAreWarned ==
    pc = "returned" =>
        LET result == Val(ret.value)
            kpis   == result.kpis
        IN  /\ (kpis.roi = None /\ kpis.earnings_year_3 = None) =>
                   Cardinality(AboutEarnings(result.warnings)) = 1
            /\ (kpis.earnings_year_1 = None
                /\ (kpis.payback_years = None \/ kpis.dti_year_1 = None
                    \/ kpis.comfort_index = None)) =>
                   Cardinality(AboutEarnings(result.warnings)) = 1

\* the step of compute_kpis a warning comes from: 1 program earnings,
\* 2 rent fallback, 3 tuition; 0 for any other text
WarningKind(w) ==
    IF w = EarningsWarning THEN 1
    ELSE IF w = RentWarning THEN 2
    ELSE IF w \in TuitionWarnings THEN 3
    ELSE 0

\* C14: in every result compute_kpis returns the warnings stand in
\* computation order: the program-earnings warning (if any), then the
\* rent-fallback warning (if any), then the tuition warning (if any), and no
\* kind of warning appears twice.
WarningsFollowComputationOrder ==
    pc = "returned" =>
        LET warnings == Val(ret.value).warnings
        IN  /\ \A i \in DOMAIN warnings : WarningKind(warnings[i]) # 0
            /\ \A i, j \in DOMAIN warnings :
                   i < j => WarningKind(warnings[i]) < WarningKind(warnings[j])

\* C14 witness: a result with all three kinds of warning has been returned
ThreeWarningsReturned ==
    /\ pc = "returned"
    /\ Len(Val(ret.value).warnings) = 3
    /\ Val(ret.value).warnings[1] = EarningsWarning
    /\ Val(ret.value).warnings[3] \in TuitionWarnings

Called(function) ==
    handler = "calculator" /\ request # <<>> /\ request[1].function = function

\* the arguments of the call
Args == request[1].args

\* what the call returned
Returned == Val(ret.value)

\* the balance after k yearly loans of 1, when the balance of the year
\* before grows by the rate and the new loan is added to it without
\* interest; a numerator over rate.den^(k-1)
RECURSIVE Balance(_, _)
Balance(k, rate) ==
    IF k <= 0 THEN 0
    ELSE IF k = 1 THEN 1
    ELSE Balance(k - 1, rate) * (rate.den + rate.num) + Pow(rate.den, k - 1)

\* C16: calculate_debt returns 0 whenever aid_annual + cash_annual >=
\* yearly_cost, whatever the rate and the years; otherwise it returns the
\* sum of the yearly loans of annual_need = yearly_cost - aid_annual -
\* cash_annual, each compounded for the years after its own, truncated to an
\* integer: annual_need * program_years at a rate of 0 (80000 for cost 30000,
\* aid 5000, cash 5000, 4 years), and the loan of the last year without
\* interest.
DebtIsCompoundedNeed ==
    Called("calculate_debt") =>
        LET annual_need == Args.yearly_cost - Args.aid_annual - Args.cash_annual
            years       == Args.program_years
            rate        == Args.loan_apr
            scale       == Pow(rate.den, years - 1)
        IN  /\ annual_need <= 0 => Val(Returned) = 0
            /\ (annual_need > 0 /\ years <= 0) => Val(Returned) = 0
            /\ (annual_need > 0 /\ years >= 1) =>
                   /\ Val(Returned) * scale <= annual_need * Balance(years, rate)
                   /\ annual_need * Balance(years, rate) < (Val(Returned) + 1) * scale
            /\ (annual_need > 0 /\ years >= 0 /\ rate.num = 0) =>
                   Val(Returned) = annual_need * years
            /\ (annual_need > 0 /\ years = 1) => Val(Returned) = annual_need
            /\ (/\ Args.yearly_cost = 30000
                /\ Args.aid_annual = 5000
                /\ Args.cash_annual = 5000
                /\ years = 4
                /\ rate.num = 0) => Val(Returned) = 80000

\* |a|
Abs(a) == IF a >= 0 THEN a ELSE -a

\* r is the quotient n / d, d > 0, rounded to the nearest integer
IsRounded(r, n, d) == 2 * Abs(n - r * d) <= d

\* C17: calculate_roi returns None exactly when the proxy earnings are absent
\* or total_investment <= 0; in every other case it returns
\* (5 * earnings - total_investment) / total_investment rounded to 2
\* decimals.
RoiIsNoneOnlyWithoutEarningsOrInvestment ==
    Called("calculate_roi") =>
        LET total_investment == Args.total_investment
            earnings         == Args.earnings_year_5
        IN  IF earnings = None \/ total_investment <= 0
            THEN Returned = None
            ELSE /\ Returned # None
                 /\ IsRounded(Val(Returned),
                              (5 * Val(earnings) - total_investment) * 100,
                              total_investment)

PaybackNeedsDisposableIncome ==
    Called("calculate_payback_period") =>
        LET earnings   == Args.earnings_year_1
            tax        == Args.effective_tax_rate
            \* disposable income times tax.den
            disposable == Val(earnings) * (tax.den - tax.num)
                          - Args.living_expenses_annual * tax.den
        IN  IF earnings = None \/ Args.total_debt <= 0 \/ disposable <= 0
            THEN Returned = None
            ELSE /\ Returned # None
                 /\ Args.total_debt > 0 /\ disposable > 0
                 /\ IsRounded(Val(Returned), Args.total_debt * 10 * tax.den, disposable)

\* C20: calculate_dti returns None exactly when earnings_year_1 is absent or
\* <= 0, and otherwise total_debt / earnings_year_1 rounded to 2 decimals:
\* 0.37 for a debt of 28000 and earnings of 75000, and 0 for no debt.
DtiIsDebtOverEarnings ==
    Called("calculate_dti") =>
        LET earnings == Args.earnings_year_1
        IN  /\ (Returned = None) <=> (earnings = None \/ Val(earnings) <= 0)
            /\ Returned # None =>
                   /\ IsRounded(Val(Returned), Args.total_debt * 100, Val(earnings))
                   /\ Args.total_debt = 0 => Val(Returned) = 0
                   /\ (Args.total_debt = 28000 /\ Val(earnings) = 75000)
                          => Val(Returned) = 37

\* a debt-to-income ratio was computed and rounded up to 0.67
DtiRoundedReturned ==
    /\ Called("calculate_dti")
    /\ Args.total_debt = 20000
    /\ Args.earnings_year_1 = Some(30000)
    /\ Returned = Some(67)

\* C21: whenever calculate_comfort_index returns a value, that value lies in
\* [0, 100], for every integer earnings_year_1, every dti and every
\* graduation_rate in [0, 1].
ComfortIndexWithinRange ==
    (Called("calculate_comfort_index") /\ Returned # None)
        => (0 <= Val(Returned) /\ Val(Returned) <= 1000)

\* C22: calculate_comfort_index is non-decreasing in earnings_year_1 when dti
\* and graduation_rate are held fixed, and non-increasing in dti when
\* earnings_year_1 and graduation_rate are held fixed: a dti <= 0.5 scores
\* 30, a dti >= 2.0 scores 0, a dti between them scores 30 * (2.0 - dti) /
\* 1.5, and earnings above 100000 add nothing.  Stated of any two calls that
\* follow one another and both return a value (tenths; dti in hundredths).
ComfortIndexIsMonotone ==
    [][(/\ Called("calculate_comfort_index") /\ Returned # None
        /\ request'[1].function = "calculate_comfort_index" /\ Val(ret'.value) # None
        /\ request'[1].args.graduation_rate = Args.graduation_rate)
       => LET first  == Args
              second == request'[1].args
              a      == Val(Returned)
              b      == Val(Val(ret'.value))
              \* the debt score of a dti, in tenths
              Score(dti) == IF dti <= 50 THEN 300
                            ELSE IF dti >= 200 THEN 0 ELSE 2 * (200 - dti)
          IN  /\ (/\ first.dti = second.dti
                  /\ Val(first.earnings_year_1) <= Val(second.earnings_year_1))
                     => /\ a <= b
                        /\ Val(first.earnings_year_1) >= 100000 => a = b
              /\ (/\ first.earnings_year_1 = second.earnings_year_1
                  /\ first.dti # None /\ second.dti # None
                  /\ Val(first.dti) <= Val(second.dti))
                     => /\ a >= b
                        /\ a - b = Score(Val(first.dti)) - Score(Val(second.dti))]_vars

\* a comfort index was computed for earnings above the cap and a dti between
\* the thresholds: 40 + 15 + 15
CappedComfortIndexReturned ==
    /\ Called("calculate_comfort_index")
    /\ Args.earnings_year_1 = Some(250000)
    /\ Args.dti = Some(125)
    /\ Args.graduation_rate = Some(Rate(1, 2))
    /\ Returned = Some(700)

\* C23: apply_regional_adjustment returns the salary unchanged when rpp_index
\* is None, 0 or 100, and otherwise salary / (rpp_index / 100) truncated to an
\* integer, so that an index above 100 never increases the salary and an
\* index below 100 never decreases it.
RegionalAdjustmentIsTruncatedQuotient ==
    Called("apply_regional_adjustment") =>
        LET salary    == Args.salary
            rpp_index == Args.rpp_index
        IN  IF rpp_index = None \/ Val(rpp_index) \in {0, 100}
            THEN Returned = Some(salary)
            ELSE /\ Returned = Some(Trunc(salary * 100, Val(rpp_index)))
                 /\ Val(rpp_index) > 100 => Val(Returned) <= salary
                 /\ Val(rpp_index) < 100 => Val(Returned) >= salary

\* the dict get_program_data made of the program lookup of this run
ProgramLookedUp == get_program_data(lookups[CHOOSE i \in Issued("program") : TRUE].outcome)

\* the price-parity lookups of this run that returned an index
RppFound ==
    {i \in Issued("rpp") : /\ ~lookups[i].outcome.raises
                           /\ lookups[i].outcome.result # None
                           /\ Val(lookups[i].outcome.result) # None}

\* nominal earnings brought to purchasing power at a price-parity index
AtIndex(earnings, index) ==
    IF earnings = None \/ index = 0 THEN earnings
    ELSE Some(Trunc(Val(earnings) * 100, index))

DerivedEarningsInterpolate ==
    (/\ Called("get_program_data")
     /\ ~Args.outcome.raises
     /\ Args.outcome.result # None)
        => LET data == Val(Args.outcome.result)
               low  == IF Val(data.earn_1yr) <= Val(data.earn_4yr)
                       THEN Val(data.earn_1yr) ELSE Val(data.earn_4yr)
               high == IF Val(data.earn_1yr) <= Val(data.earn_4yr)
                       THEN Val(data.earn_4yr) ELSE Val(data.earn_1yr)
           IN  IF data.earn_1yr = None \/ data.earn_4yr = None
               THEN Returned = None
               ELSE /\ Returned = Some(Trunc(3 * Val(data.earn_1yr)
                                             + 2 * (Val(data.earn_4yr) - Val(data.earn_1yr)), 3))
                    /\ low <= Val(Returned) /\ Val(Returned) <= high

\* the end-to-end scenario: a public institution with an in-state tuition of
\* 14254 on record, an in-state student in a 1BR with 1 roommate and no rent
\* override, a looked-up rent of 1800, food 400, transport 100, utilities
\* 150, misc 200, books 1200, aid 5000, cash 10000, no region id, and a
\* program with earnings of 75000 after 1 year and 95000 after 4 years
EndToEndScenario ==
    /\ Issued("program") # {} /\ Issued("rent") # {}
    /\ frame.inst_data.ownership = 1
    /\ frame.inst_data.tuition_in_state = Some(14254)
    /\ Scenario.is_instate
    /\ Scenario.housing_type = "1BR" /\ Scenario.roommate_count = 1
    /\ Scenario.rent_monthly = None
    /\ RentLookedUp = Some(1800)
    /\ Scenario.food_monthly = Some(400) /\ Scenario.transport_monthly = Some(100)
    /\ Scenario.utilities_monthly = Some(150) /\ Scenario.misc_monthly = Some(200)
    /\ Scenario.books_annual = Some(1200)
    /\ Scenario.aid_annual = 5000 /\ Scenario.cash_annual = 10000
    /\ Scenario.postgrad_region_id = None
    /\ ProgramLookedUp.earn_1yr = Some(75000)
    /\ Get(ProgramLookedUp, "earn_4yr") = Some(95000)

\* C26: for the end-to-end scenario compute_kpis yields earnings_year_3 =
\* 88333, housing_annual = 10800, other_expenses = 11400, true_yearly_cost =
\* 36454, tuition_fees = 14254, an expected debt that is the truncated sum
\* of four yearly loans of annual_need = 21454 compounded at loan_apr, and
\* no warnings.
EndToEndExample ==
    (pc = "returned" /\ EndToEndScenario) =>
        LET kpis  == Val(ret.value).kpis
            rate  == Scenario.loan_apr
            scale == Pow(rate.den, 3)
        IN  /\ kpis.earnings_year_3 = Some(88333)
            /\ kpis.housing_annual = 10800
            /\ kpis.other_expenses = 11400
            /\ kpis.true_yearly_cost = 36454
            /\ kpis.tuition_fees = 14254
            /\ kpis.expected_debt_at_grad * scale <= 21454 * Balance(4, rate)
            /\ 21454 * Balance(4, rate) < (kpis.expected_debt_at_grad + 1) * scale
            /\ Val(ret.value).warnings = <<>>

\* C26 witness: the result of the end-to-end scenario has been returned; at
\* an APR of 10% the debt is 21454 * 4.641 = 99568
EndToEndReturned ==
    /\ pc = "returned"
    /\ EndToEndScenario
    /\ Scenario.loan_apr = Rate(1, 10)
    /\ Val(ret.value).kpis.true_yearly_cost = 36454
    /\ Val(ret.value).kpis.expected_debt_at_grad = 99568

\* C27: calculate_housing_cost(fmr_monthly, roommate_count) is floor(12 *
\* fmr_monthly / (roommate_count + 1)) for every fmr_monthly >= 0 and
\* roommate_count in 0..10 (14400, 7200 and 3600 for a rent of 1200 with 0, 1
\* and 3 roommates); its divisor is never zero, it never exceeds 12 *
\* fmr_monthly, and of two calls that follow one another with the same rent
\* the one with more roommates never costs more.
HousingCostIsSharedRent ==
    [][request'[1].function = "calculate_housing_cost"
       => LET args   == request'[1].args
              shares == args.roommate_count + 1
              cost   == Val(Val(ret'.value))
          IN  /\ shares > 0
              /\ cost * shares <= 12 * args.fmr_monthly
              /\ 12 * args.fmr_monthly < (cost + 1) * shares
              /\ cost <= 12 * args.fmr_monthly
              /\ args.fmr_monthly = 1200 =>
                     /\ args.roommate_count = 0 => cost = 14400
                     /\ args.roommate_count = 1 => cost = 7200
                     /\ args.roommate_count = 3 => cost = 3600
              /\ (/\ Called("calculate_housing_cost")
                  /\ Args.fmr_monthly = args.fmr_monthly
                  /\ Args.roommate_count <= args.roommate_count)
                     => cost <= Val(Returned)]_vars

\* C27 witness: a rent of 1000 shared by three was annualised to 4000
SharedRentReturned ==
    /\ Called("calculate_housing_cost")
    /\ Args.fmr_monthly = 1000
    /\ Args.roommate_count = 2
    /\ Returned = Some(4000)

\* what the lookup of that name answered in the running call
Answer(name) == lookups[CHOOSE i \in Issued(name) : TRUE].outcome

\* the result of compute_kpis as a function of the scenario and of the
\* answers of the lookups alone: institution and program, rent and
\* price-parity where the scenario asks for them
Alone(scenario, institution, program_answer, rent_answer, rpp_answer) ==
    LET program  == get_program_data(program_answer)
        source   == rent_source(scenario)
        started  == IF ~Truthy(Get(program, "earn_1yr")) THEN <<EarningsWarning>> ELSE <<>>
        rent     == IF source = "hud_fmr"
                    THEN ResolveRent(get_housing_cost(rent_answer), started)
                    ELSE [fmr_monthly |-> IF source = "none" THEN 0
                                          ELSE Val(scenario.rent_monthly),
                          warnings    |-> started]
        housing  == IF source = "none" THEN 0
                    ELSE calculate_housing_cost(rent.fmr_monthly, scenario.roommate_count)
        defaults == get_default_values
        tuition  == ResolveTuition(institution, scenario.is_instate, rent.warnings)
        cost     == calculate_total_cost(tuition.tuition_fees, housing,
                        Override(scenario.food_monthly, defaults.food_monthly),
                        Override(scenario.transport_monthly, defaults.transport_monthly),
                        Override(scenario.utilities_monthly, defaults.utilities_monthly),
                        Override(scenario.misc_monthly, defaults.misc_monthly),
                        Override(scenario.books_annual, defaults.books_annual))
        debt     == calculate_debt(cost[1], scenario.aid_annual, scenario.cash_annual,
                                   defaults.program_years, scenario.loan_apr)
        rpp      == IF Truthy(scenario.postgrad_region_id)
                    THEN get_regional_rpp(rpp_answer) ELSE None
        year_1   == AdjustEarnings(Get(program, "earn_1yr"), rpp)
        year_3   == AdjustEarnings(Get(program, "earn_3yr"), rpp)
        dti      == calculate_dti(debt, year_1)
    IN  [kpis |->
             [true_yearly_cost      |-> cost[1],
              tuition_fees          |-> tuition.tuition_fees,
              housing_annual        |-> cost[2],
              other_expenses        |-> cost[3],
              expected_debt_at_grad |-> debt,
              earnings_year_1       |-> year_1,
              earnings_year_3       |-> year_3,
              earnings_year_5       |-> Get(program, "earn_5yr"),
              roi                   |-> calculate_roi((cost[1] - scenario.aid_annual)
                                                      * defaults.program_years, year_3),
              payback_years         |-> calculate_payback_period(debt, year_1,
                                            scenario.effective_tax_rate,
                                            LIVING_EXPENSES_ANNUAL),
              dti_year_1            |-> dti,
              graduation_rate       |-> Some(GRADUATION_RATE),
              comfort_index         |-> calculate_comfort_index(year_1, debt, dti,
                                                                Some(GRADUATION_RATE))],
         assumptions |-> [rent_source |-> source] @@ defaults,
         warnings    |-> tuition.warnings]

\* C28: compute_kpis keeps no state between computations: whatever was
\* computed before on the same service (the scenarios of a comparison, the
\* entries and warnings collected so far), the KPIs, the assumptions with
\* rent_source and the warnings of a result are those of the scenario alone
\* with the answers its lookups received.
ResultDependsOnScenarioAlone ==
    pc = "returned" =>
        Val(ret.value) = Alone(Scenario,
                               Val(Answer("institution").result),
                               Answer("program"),
                               IF Issued("rent") # {} THEN Answer("rent") ELSE QueryResult(None),
                               IF Issued("rpp") # {} THEN Answer("rpp") ELSE QueryResult(None))

\* C28 witness: in a comparison a scenario without warnings, renting at a
\* rent of its own, has been computed after a scenario living at home whose
\* entry holds a warning
CleanResultAfterWarnings ==
    /\ handler = "compare_scenarios"
    /\ pc = "returned"
    /\ idx > 0
    /\ comparisons[idx].warnings # <<>>
    /\ comparisons[idx].kpis # None
    /\ comparisons[idx].scenario.housing_type = "none"
    /\ Val(ret.value).assumptions.rent_source = "user_provided"
    /\ Val(ret.value).warnings = <<>>

\* the place of a lookup in the pass of compute_kpis
Rank(name) ==
    IF name = "institution" THEN 1
    ELSE IF name = "program" THEN 2
    ELSE IF name = "rent" THEN 3
    ELSE IF name = "rpp" THEN 4
    ELSE 0

\* C29: within one run of compute_kpis the lookups are issued in a single
\* forward pass, each at most once: the institution lookup first; the
\* program lookup only after the institution lookup found the institution;
\* the rent lookup only if housing_type is not 'none' and no rent override
\* is used, and after the program lookup; the price-parity lookup only if a
\* region id is supplied, and after tuition, total cost and debt; after an
\* institution-not-found failure no further lookup.
LookupsInOneForwardPass ==
    (InScenario /\ pc \in {"inst", "raised"} \cup PastInstitution) =>
        /\ \A i \in DOMAIN lookups : Rank(lookups[i].lookup) # 0
        /\ \A i, j \in DOMAIN lookups :
               i < j => Rank(lookups[i].lookup) < Rank(lookups[j].lookup)
        /\ lookups # <<>> => lookups[1].lookup = "institution"
        /\ pc = "inst" => lookups = <<>>
        /\ Issued("program") # {} =>
               /\ pc \in PastInstitution \ {"program"}
               /\ ~lookups[1].outcome.raises
               /\ lookups[1].outcome.result # None
               /\ lookups[2].lookup = "program"
        /\ Issued("rent") # {} =>
               /\ pc \in PastHousing
               /\ Scenario.housing_type # "none"
               /\ frame.assumptions.rent_source = "hud_fmr"
               /\ Issued("program") # {}
        /\ Issued("rpp") # {} =>
               /\ pc \in {"kpis", "build", "returned"}
               /\ Scenario.postgrad_region_id # None
        /\ (/\ lookups # <<>>
            /\ ~lookups[1].outcome.raises
            /\ lookups[1].outcome.result = None) =>
               /\ pc = "raised"
               /\ Len(lookups) = 1

\* C29 witness: a run that issued all four lookups has returned
FourLookupsReturned ==
    /\ pc = "returned"
    /\ Len(lookups) = 4
    /\ lookups[3].lookup = "rent"
    /\ lookups[3].outcome.raises
    /\ lookups[4].lookup = "rpp"

\* the connections that are open
OpenConnections == {i \in DOMAIN connections : connections[i].open}

\* the function of the client the step calls
Calls(function) == request'[1].function = function

\* C30: over any sequence of connect, query, query_one and close calls on
\* one DuckDBClient at most one connection is open at a time, and it is the
\* one the client holds: connect and every query use the connection the
\* client holds until close is called; close leaves the client with no
\* connection and nothing open, and changes nothing when there is none; a
\* connect or query after close opens a fresh connection; when the database
\* file cannot be opened the call goes on with an in-memory connection.
AtMostOneConnection ==
    [][/\ Cardinality(OpenConnections') <= 1
       /\ OpenConnections' = (IF connection' = None THEN {} ELSE {Val(connection')})
       /\ (connection # None /\ ~Calls("close")) =>
              /\ connection' = connection
              /\ connections' = connections
       /\ (connection # None /\ Calls("connect")) => ret' = Return(connection)
       /\ Calls("close") =>
              /\ connection' = None
              /\ OpenConnections' = {}
              /\ Len(connections') = Len(connections)
              /\ connection = None => connections' = connections
       /\ (connection = None /\ ~Calls("close")) =>
              /\ connection' = Some(Len(connections) + 1)
              /\ Len(connections') = Len(connections) + 1
              /\ \A i \in DOMAIN connections : connections'[i] = connections[i]
              /\ connections'[Len(connections')].open
              /\ connections'[Len(connections')].database \in {"db_path", ":memory:"}
              /\ Calls("connect") => ret' = Return(connection')]_vars

\* C30 witness: after a close the client has opened a second connection,
\* in memory because the database file could not be opened
FallbackAfterClose ==
    /\ handler = "duckdb_client"
    /\ Len(connections) = 2
    /\ ~connections[1].open
    /\ connection = Some(2)
    /\ connections[2] = [database |-> ":memory:", open |-> TRUE]
    /\ request[1].function = "query_one"
    /\ ret.kind = "raise"

====
